---- MODULE Spec2Model ----
(***************************************************************************)
(* Model of the tool-calling conversation loops of the agent:              *)
(*   - OpenAIClient.ProcessWithTools / processToolConversation             *)
(*   - LocalClient.ProcessWithTools (Ollama and OpenAI-compatible paths)   *)
(*   - the free function CallOpenAIWithTools                               *)
(* together with the invoke-callbacks the agent facade builds for them     *)
(* (registry closure, UI wrapper, interactive approval closure), of the    *)
(* ConversationSession mutators, and of the provider registry mcp.Manager  *)
(* with the tool table Agent.prepareMCPTools builds from it. Further        *)
(* specifications cover the LLM provider manager llm.Manager, the stream   *)
(* producers of OpenAIClient and LocalClient, the conversation runs of the *)
(* agent on one session, the client cache of DefaultClientFactory, the     *)
(* basic chat loop with the streaming goroutine of the agent, the JSON-RPC *)
(* layer of one MCPProcess, Manager.Shutdown, and the lock Manager.mu.      *)
(*                                                                         *)
(* Text is modelled structurally: a message content is a record naming the *)
(* format string that produced it (form), the value formatted into it and  *)
(* the advisory suffixes appended to it.                                   *)
(***************************************************************************)
EXTENDS Integers, Sequences, FiniteSets, Bags, TLC

VARIABLES
    loop,           \* which tool loop runs
    dialect,        \* LocalClient only: "ollama" or "openai" response format
    caller,         \* which invoke-callback the loop was handed
    display,        \* the display sink: "none", "noninteractive", "interactive"
    tools,          \* the offered tool catalog (sequence of Tool)
    messages,       \* the loop's message sequence
    iteration,      \* the loop counter
    pc,             \* "request", "dispatch", "dispatch_text", "done"
    k,              \* index of the next tool call of the current assistant turn
    calls,          \* the tool calls of the current assistant turn
    textCall,       \* LocalClient: the textual tool call parsed from the reply
    result,         \* what the loop returned
    userAborted,    \* approval closure state
    autoApproveAll, \* approval closure state
    trace,          \* observable events, in order
    freeReplies,    \* backend replies still chosen freely
    freeAnswers,    \* sink answers still chosen freely
    session,        \* ConversationSession.Messages
    servers,        \* Manager.servers: id -> MCPServer
    processes,      \* Manager.processes: id -> index into procs
    procs,          \* every MCPProcess object created, with its subprocess
    storage,        \* mcp_servers.json as last saved
    discovered,     \* ids of the servers with an answered tools/list
    connecting,     \* the bag of connectToServer goroutines that have not run yet
    checks,         \* the healthCheck goroutines of the sweep under way
    uuids,          \* number of servers that were given an ID so far
    inflight,       \* the Manager.CallTool in flight, or NoCall
    now,            \* the wall clock, in seconds since the manager started
    op,             \* the last CallTool, healthCheck or Shutdown and what it returned
    mcpTools,       \* what Agent.prepareMCPTools built last
    providers,      \* llm.Manager.providers: id -> LLMProvider
    providerFile,   \* llm_providers.json as last written
    llmLock,        \* llm.Manager.mu: 0, or the id SetActiveProvider is setting
    listing,        \* ids of the providers a GET of the providers has yet to mask
    stream,         \* ProcessMessageStream: the client and what its backend sends
    producer,       \* the producer goroutine: where it is, next line, pending error
    channel,        \* the stream channel: chunks delivered, closes, panic
    runs,           \* the conversation runs on the session: run -> where it is
    factory,        \* DefaultClientFactory: its cache and the CreateClient calls
    chat,           \* startBasicChat: the loop, the streaming goroutine, its channel
    rpc,            \* one MCPProcess: nextID, responses, the requests under way
    locks           \* Manager.mu and the calls that take it

vars == <<loop, dialect, caller, display, tools, messages, iteration, pc, k,
          calls, textCall, result, userAborted, autoApproveAll, trace, freeReplies,
          freeAnswers, session, servers, processes, procs, storage, discovered,
          connecting, checks, uuids, inflight, now, op, mcpTools, providers,
          providerFile, llmLock, listing, stream, producer, channel, runs,
          factory, chat, rpc, locks>>

-----------------------------------------------------------------------------
(* Program constants *)

MaxToolIterations == 10
LocalMaxToolIterations == 10
maxIterations == 10

(* Bounds of the model *)

\* number of backend replies drawn from the whole reply menu; later replies
\* are either the final text or the routine single tool call
MaxFreeReplies == 2
\* number of approval prompts the sink answers freely; later prompts are
\* answered approve
MaxFreeAnswers == 2
MaxSessionLen == 4

-----------------------------------------------------------------------------
(* Roles *)

RoleUser == "user"
RoleAssistant == "assistant"
RoleSystem == "system"
RoleTool == "tool"

-----------------------------------------------------------------------------
(* The offered catalog.  A Tool carries its exposed name, the provider tool *)
(* it stands for, the parameter names its schema lists as required, and     *)
(* whether that list is a []interface{} (a JSON-decoded schema) or a        *)
(* []string (the Go literal of the mock provider).                          *)

FsReadFile == [name |-> "fs_read_file", toolName |-> "read_file",
               required |-> {"path"}, requiredIsInterfaceSlice |-> TRUE]
MockReadFile == [name |-> "mock_read_file", toolName |-> "read_file",
                 required |-> {"path"}, requiredIsInterfaceSlice |-> FALSE]

Catalog == <<FsReadFile, MockReadFile>>

ToolNames(ts) == {ts[i].name : i \in 1..Len(ts)}

-----------------------------------------------------------------------------
(* Errors are the format string that built them plus its argument.          *)

Err(fmt, arg) == [fmt |-> fmt, arg |-> arg]
NoError == Err("nil", "")

(* Values returned by an invoke-callback: an object (map), a string, or nil *)

Value(type, val) == [type |-> type, val |-> val]
NilValue == Value("nil", "")

-----------------------------------------------------------------------------
(* Function.Arguments is a JSON string: either well-formed, decoding to an  *)
(* object given here as a set of <<key, value>> pairs, or malformed.        *)

ArgsPathTmp == [wellFormed |-> TRUE, obj |-> {<<"path", "/tmp/a">>}]
ArgsPathMissingFile == [wellFormed |-> TRUE, obj |-> {<<"path", "/nope">>}]
ArgsPathDir == [wellFormed |-> TRUE, obj |-> {<<"path", "/tmp">>}]
ArgsEmpty == [wellFormed |-> TRUE, obj |-> {}]
ArgsMalformed == [wellFormed |-> FALSE, obj |-> {}]

Keys(obj) == {p[1] : p \in obj}

\* json.Unmarshal([]byte(toolCall.Function.Arguments), &args)
Unmarshal(arguments) ==
    IF arguments.wellFormed
    THEN [err |-> NoError, args |-> arguments.obj]
    ELSE [err |-> Err("json syntax error", ""), args |-> {}]

-----------------------------------------------------------------------------
(* The tool provider behind the registry: the mock provider.                *)

ExistingFiles == {"/tmp/a"}
ExistingDirs == {".", "/tmp"}

\* the error of os.ReadFile and of os.ReadDir, by what is at the path
ReadError(call, path) ==
    IF call = "ReadFile" /\ path \in ExistingDirs THEN "is a directory"
    ELSE IF call = "ReadDir" /\ path \in ExistingFiles THEN "not a directory"
    ELSE "no such file or directory"

\* argument values that are not JSON strings, written as their JSON text
NonStrings == {"7", "true", "null"}

\* v, ok := arguments[key].(string)
StringArg(args, key) ==
    IF \E p \in args : p[1] = key /\ p[2] \notin NonStrings
    THEN [ok |-> TRUE, v |-> (CHOOSE p \in args : p[1] = key /\ p[2] \notin NonStrings)[2]]
    ELSE [ok |-> FALSE, v |-> ""]

ProviderCallTool(toolName, args) ==
    CASE toolName = "list_directory" ->
            LET path == IF StringArg(args, "path").ok THEN StringArg(args, "path").v ELSE "."
            IN  IF path \in ExistingDirs
                THEN [value |-> Value("object", "path,files"), err |-> NoError]
                ELSE [value |-> NilValue,
                      err |-> Err("failed to read directory: %w", ReadError("ReadDir", path))]
      [] toolName = "read_file" ->
            IF ~StringArg(args, "path").ok
            THEN [value |-> NilValue, err |-> Err("path argument is required", "")]
            ELSE IF StringArg(args, "path").v \in ExistingFiles
            THEN [value |-> Value("object", "path,content,size"), err |-> NoError]
            ELSE [value |-> NilValue,
                  err |-> Err("failed to read file: %w",
                              ReadError("ReadFile", StringArg(args, "path").v))]
      [] toolName = "execute_command" ->
            IF ~StringArg(args, "command").ok
            THEN [value |-> NilValue, err |-> Err("command argument is required", "")]
            ELSE [value |-> Value("object", "command,output,status"), err |-> NoError]
      [] OTHER -> [value |-> NilValue, err |-> Err("tool %s not found", toolName)]

-----------------------------------------------------------------------------
(* ToolProcessor *)

\* FindTool: the first offered tool with that name, as a sequence of 0 or 1
FindTool(ts, name) ==
    IF \E i \in 1..Len(ts) : ts[i].name = name
    THEN LET i == CHOOSE j \in 1..Len(ts) :
                    /\ ts[j].name = name
                    /\ \A h \in 1..(j - 1) : ts[h].name # name
         IN <<ts[i]>>
    ELSE <<>>

\* ValidateToolCall: the required-parameter check runs only when the schema's
\* "required" entry is a []interface{}
ValidateToolCall(ts, name, args) ==
    LET found == FindTool(ts, name) IN
    IF found = <<>>
    THEN Err("tool %s not found", name)
    ELSE IF /\ found[1].requiredIsInterfaceSlice
            /\ \E r \in found[1].required : r \notin Keys(args)
    THEN Err("required parameter %s missing for tool %s", name)
    ELSE NoError

-----------------------------------------------------------------------------
(* Message contents.  form is the format that produced the text:            *)
(*   "%s"                          plain text                               *)
(*   "Error parsing arguments: %v" ErrParsingArguments                      *)
(*   "Error: %v"                   a validation or callback error           *)
(*   "json"                        json.Marshal of the value                *)
(*   "null"                        FormatToolResult(nil)                    *)
(*   "%v"                          fmt.Sprintf("%v", value)                 *)
(* embedded is the {"use_tool": ...} object a local model wrote in its text *)

NoUseTool == [present |-> FALSE, balanced |-> TRUE, toolName |-> "",
              parameters |-> {}]

Content(form, value, err, suffixes, embedded) ==
    [form |-> form, value |-> value, err |-> err, suffixes |-> suffixes,
     embedded |-> embedded]

Text(s) == Content("%s", Value("string", s), NoError, {}, NoUseTool)

Msg(role, content, toolCalls, toolCallID, name) ==
    [role |-> role, content |-> content, tool_calls |-> toolCalls,
     tool_call_id |-> toolCallID, name |-> name]

ToolCall(id, name, arguments) ==
    [id |-> id, name |-> name, arguments |-> arguments]

\* FormatToolResult
FormatToolResult(value) ==
    IF value.type = "nil"
    THEN Content("null", value, NoError, {}, NoUseTool)
    ELSE Content("json", value, NoError, {}, NoUseTool)

\* the result switch of LocalClient: a string as is, a map as JSON, the rest %v
LocalResultStr(value) ==
    IF value.type = "string" THEN Content("%s", value, NoError, {}, NoUseTool)
    ELSE IF value.type = "object"
    THEN Content("json", value, NoError, {}, NoUseTool)
    ELSE Content("%v", value, NoError, {}, NoUseTool)

-----------------------------------------------------------------------------
(* Events observed during a run *)

Event(ev, id, name, answer) ==
    [ev |-> ev, id |-> id, name |-> name, answer |-> answer, err |-> NoError]

\* the invoke-callback handed (value, err) back to the loop
Returned(id, name, err) ==
    [ev |-> "returned", id |-> id, name |-> name, answer |-> "", err |-> err]

-----------------------------------------------------------------------------
(* The display sink's approval prompt.  answer is what the user types.      *)

Decisions == {"approve", "deny", "approve_all", "abort", "read_error"}

\* PromptToolApproval of the display: (approved, err)
PromptToolApproval(disp, answer) ==
    IF disp # "interactive"
    THEN [approved |-> TRUE, err |-> NoError]
    ELSE IF answer = "approve" THEN [approved |-> TRUE, err |-> NoError]
    ELSE IF answer = "deny" THEN [approved |-> FALSE, err |-> NoError]
    ELSE IF answer = "approve_all"
    THEN [approved |-> FALSE, err |-> Err("AUTO_APPROVE_ALL", "")]
    ELSE IF answer = "abort" THEN [approved |-> FALSE, err |-> Err("ABORT", "")]
    ELSE [approved |-> FALSE, err |-> Err("failed to read user input: %w", "")]

-----------------------------------------------------------------------------
(* Invoke-callbacks.  Each returns the value and error of the call, the     *)
(* events it caused (id only labels them) and the closure state after it.   *)

CallerResult(value, err, events, aborted, autoAll) ==
    [value |-> value, err |-> err, events |-> events,
     userAborted |-> aborted, autoApproveAll |-> autoAll]

\* "return provider.CallTool(ctx, toolName, args)": the value and the error
\* of the call r are what the callback returns
CallReturn(r, events, aborted, autoAll) ==
    CallerResult(r.value, r.err, events, aborted, autoAll)

\* the closure of prepareMCPTools / processOpenAIWithMCP: look the exposed
\* name up and call the tool on its provider
RegistryCaller(ts, id, name, args, aborted, autoAll) ==
    LET found == FindTool(ts, name) IN
    IF found = <<>>
    THEN CallerResult(NilValue, Err("tool %s not found", name), <<>>,
                      aborted, autoAll)
    ELSE CallReturn(ProviderCallTool(found[1].toolName, args),
                  <<Event("invoke", id, name, "")>>, aborted, autoAll)

\* WrapToolCallerWithUI: show the call, execute it, show the outcome
WrapToolCallerWithUI(ts, id, name, args, aborted, autoAll) ==
    LET shown(r) ==
            CallerResult(r.value, r.err,
                         <<Event("show_tool_call", id, name, "")>> \o r.events,
                         aborted, autoAll)
    IN  shown(RegistryCaller(ts, id, name, args, aborted, autoAll))

\* variant: approve-all approves the call at hand but is not remembered
ApprovalCaller_ForgetsApproveAll(ts, disp, id, name, args, aborted, autoAll, answer) ==
    LET found == FindTool(ts, name)
        p == PromptToolApproval(disp, answer)
        shown == <<Event("show_tool_call", id, name, "")>>
        asked == shown \o <<Event("prompt", id, name,
                                  IF disp = "interactive" THEN answer
                                  ELSE "approve")>>
        run(evs, all) ==
            CallReturn(ProviderCallTool(found[1].toolName, args),
                     evs \o <<Event("invoke", id, name, "")>>, aborted, all)
    IN
    IF aborted
    THEN CallerResult(NilValue,
            Err("execution aborted by user - no further tools will be executed", ""),
            <<>>, aborted, autoAll)
    ELSE IF found = <<>>
    THEN CallerResult(NilValue, Err("tool %s not found", name), <<>>,
                      aborted, autoAll)
    ELSE IF autoAll THEN run(shown, autoAll)
    ELSE IF p.err.fmt = "AUTO_APPROVE_ALL" THEN run(asked, autoAll)
    ELSE IF p.err.fmt = "ABORT"
    THEN CallerResult(NilValue,
            Err("execution aborted by user - session terminated", ""),
            asked, TRUE, autoAll)
    ELSE IF p.err # NoError
    THEN CallerResult(NilValue, p.err, asked, aborted, autoAll)
    ELSE IF ~p.approved
    THEN CallerResult(Value("string", "Tool execution skipped by user"),
                      NoError, asked, aborted, autoAll)
    ELSE run(asked, autoAll)

\* the closure of processOpenAIWithMCPAndUI
ApprovalCaller(ts, disp, id, name, args, aborted, autoAll, answer) ==
    LET found == FindTool(ts, name)
        p == PromptToolApproval(disp, answer)
        shown == <<Event("show_tool_call", id, name, "")>>
        asked == shown \o <<Event("prompt", id, name,
                                  IF disp = "interactive" THEN answer
                                  ELSE "approve")>>
        run(evs, all) ==
            CallReturn(ProviderCallTool(found[1].toolName, args),
                     evs \o <<Event("invoke", id, name, "")>>, aborted, all)
    IN
    IF aborted
    THEN CallerResult(NilValue,
            Err("execution aborted by user - no further tools will be executed", ""),
            <<>>, aborted, autoAll)
    ELSE IF found = <<>>
    THEN CallerResult(NilValue, Err("tool %s not found", name), <<>>,
                      aborted, autoAll)
    ELSE IF autoAll THEN run(shown, autoAll)
    ELSE IF p.err.fmt = "AUTO_APPROVE_ALL" THEN run(asked, TRUE)
    ELSE IF p.err.fmt = "ABORT"
    THEN CallerResult(NilValue,
            Err("execution aborted by user - session terminated", ""),
            asked, TRUE, autoAll)
    ELSE IF p.err # NoError
    THEN CallerResult(NilValue, p.err, asked, aborted, autoAll)
    ELSE IF ~p.approved
    THEN CallerResult(Value("string", "Tool execution skipped by user"),
                      NoError, asked, aborted, autoAll)
    ELSE run(asked, autoAll)

\* the callback the loop was handed
Invoke(c, ts, disp, id, name, args, aborted, autoAll, answer) ==
    IF c = "registry" THEN RegistryCaller(ts, id, name, args, aborted, autoAll)
    ELSE IF c = "ui_wrapped"
    THEN WrapToolCallerWithUI(ts, id, name, args, aborted, autoAll)
    ELSE ApprovalCaller(ts, disp, id, name, args, aborted, autoAll, answer)

-----------------------------------------------------------------------------
(* What a loop returns *)

Running == [status |-> "running", text |-> Text(""), err |-> NoError]
ReturnText(content) == [status |-> "ok", text |-> content, err |-> NoError]
ReturnError(err) == [status |-> "error", text |-> Text(""), err |-> err]

\* fmt.Errorf(ErrMaxIterationsExceeded, MaxToolIterations)
ErrMaxIterationsExceeded(cap) ==
    Err("conversation exceeded maximum iterations (%d)", ToString(cap))

\* what processing one tool call does to the loop
Step(msgs, events, ret, aborted, autoAll) ==
    [msgs |-> msgs, events |-> events, ret |-> ret,
     userAborted |-> aborted, autoApproveAll |-> autoAll]

ToolMsg(content, tc) == Msg(RoleTool, content, <<>>, tc.id, tc.name)

-----------------------------------------------------------------------------
(* OpenAIClient.ProcessWithTools and processToolConversation: the body of   *)
(* "for _, toolCall := range choice.Message.ToolCalls"                      *)

\* variant: a callback error ends the loop with that error
OpenAIClientToolCall_ErrorIsFatal(c, ts, disp, tc, aborted, autoAll, answer) ==
    LET parsed == Unmarshal(tc.arguments)
        invalid == ValidateToolCall(ts, tc.name, parsed.args)
        r == Invoke(c, ts, disp, tc.id, tc.name, parsed.args, aborted,
                    autoAll, answer)
        called == <<Event("callback", tc.id, tc.name, "")>> \o r.events
                  \o <<Returned(tc.id, tc.name, r.err)>>
    IN
    IF c = "nil" THEN Step(<<>>, <<>>, Running, aborted, autoAll)
    ELSE IF parsed.err # NoError
    THEN Step(<<ToolMsg(Content("Error parsing arguments: %v", NilValue,
                                parsed.err, {}, NoUseTool), tc)>>,
              <<>>, Running, aborted, autoAll)
    ELSE IF invalid # NoError
    THEN Step(<<ToolMsg(Content("Error: %v", NilValue, invalid, {},
                                NoUseTool), tc)>>,
              <<>>, Running, aborted, autoAll)
    ELSE IF r.err # NoError
    THEN Step(<<>>, called, ReturnError(r.err), r.userAborted,
              r.autoApproveAll)
    ELSE Step(<<ToolMsg(FormatToolResult(r.value), tc)>>,
              called, Running, r.userAborted, r.autoApproveAll)

OpenAIClientToolCall(c, ts, disp, tc, aborted, autoAll, answer) ==
    LET parsed == Unmarshal(tc.arguments)
        invalid == ValidateToolCall(ts, tc.name, parsed.args)
        r == Invoke(c, ts, disp, tc.id, tc.name, parsed.args, aborted,
                    autoAll, answer)
        called == <<Event("callback", tc.id, tc.name, "")>> \o r.events
                  \o <<Returned(tc.id, tc.name, r.err)>>
    IN
    IF c = "nil" THEN Step(<<>>, <<>>, Running, aborted, autoAll)
    ELSE IF parsed.err # NoError
    THEN Step(<<ToolMsg(Content("Error parsing arguments: %v", NilValue,
                                parsed.err, {}, NoUseTool), tc)>>,
              <<>>, Running, aborted, autoAll)
    ELSE IF invalid # NoError
    THEN Step(<<ToolMsg(Content("Error: %v", NilValue, invalid, {},
                                NoUseTool), tc)>>,
              <<>>, Running, aborted, autoAll)
    ELSE IF r.err # NoError
    THEN Step(<<ToolMsg(Content("Error: %v", NilValue, r.err, {},
                                NoUseTool), tc)>>,
              called, Running, r.userAborted, r.autoApproveAll)
    ELSE Step(<<ToolMsg(FormatToolResult(r.value), tc)>>,
              called, Running, r.userAborted, r.autoApproveAll)

-----------------------------------------------------------------------------
(* CallOpenAIWithTools: the body of its tool-call loop                      *)

\* strings.Contains(text, pattern) on the texts of the model, which are
\* atoms: a text contains itself and the patterns listed for it
Composite ==
    { <<"ENOENT: no such file or directory", "ENOENT">>,
      <<"ENOENT: no such file or directory", "no such file or directory">>,
      <<"EACCES: permission denied", "EACCES">>,
      <<"EACCES: permission denied", "permission denied">>,
      <<"sh: foo: command not found", "command not found">>,
      <<"error,hints,suggestion", "error">> }

TextContains(text, pattern) == text = pattern \/ <<text, pattern>> \in Composite

\* strings.Contains(errorMsg, pattern): err.Error() is the format with the
\* argument in it
ErrorMentions(err, pattern) ==
    err # NoError /\ (TextContains(err.fmt, pattern) \/ TextContains(err.arg, pattern))

\* the hint groups selected for an error message
Hints(err) ==
    (IF \/ ErrorMentions(err, "no such file or directory")
        \/ ErrorMentions(err, "ENOENT") THEN {"path"} ELSE {})
    \cup (IF \/ ErrorMentions(err, "permission denied")
             \/ ErrorMentions(err, "EACCES") THEN {"permission"} ELSE {})
    \cup (IF ErrorMentions(err, "command not found") THEN {"command"} ELSE {})

\* strings.Contains(toolResponse, fragment) for the four fragments the code
\* looks for. With an error the result is the map of error, hints and
\* suggestion: its text has the key "error", the error message, and "[]"
\* when no hint was selected. Without one it is the value of the tool.
ResponseContains(value, err, fragment) ==
    IF err # NoError
    THEN \/ fragment = "error"
         \/ fragment = "[]" /\ Hints(err) = {}
         \/ ErrorMentions(err, fragment)
    ELSE TextContains(value.val, fragment)

\* the advisory "[System: ...]" breadcrumbs appended to the serialized result
ToolResponseSuffixes(value, err, nCalls, i) ==
    (IF \/ ResponseContains(value, err, "[]")
        \/ ResponseContains(value, err, "{}") THEN {"empty_result"} ELSE {})
    \cup (IF /\ ResponseContains(value, err, "error")
             /\ ResponseContains(value, err, "ENOENT")
          THEN {"path_not_found"} ELSE {})
    \cup (IF nCalls = 1 /\ i < maxIterations - 2
          THEN {"consider_more_tools"} ELSE {})

CallOpenAIWithToolsToolCall(c, ts, disp, tc, nCalls, i, aborted, autoAll, answer) ==
    LET parsed == Unmarshal(tc.arguments)
        r == Invoke(c, ts, disp, tc.id, tc.name, parsed.args, aborted,
                    autoAll, answer)
        called == <<Event("callback", tc.id, tc.name, "")>> \o r.events
                  \o <<Returned(tc.id, tc.name, r.err)>>
        value == IF r.err # NoError
                 THEN Value("object", "error,hints,suggestion")
                 ELSE r.value
        content == Content("json", value, r.err,
                           ToolResponseSuffixes(value, r.err, nCalls, i),
                           NoUseTool)
    IN
    IF parsed.err # NoError
    THEN Step(<<>>, <<>>,
              ReturnError(Err("failed to parse tool arguments: %w", "")),
              aborted, autoAll)
    ELSE Step(<<Msg(RoleTool, content, <<>>, tc.id, "")>>, called, Running,
              r.userAborted, r.autoApproveAll)

-----------------------------------------------------------------------------
(* LocalClient.ProcessWithTools                                             *)

\* the native tool-call branch of the OpenAI-compatible path
LocalClientToolCall(c, ts, disp, tc, aborted, autoAll, answer) ==
    LET parsed == Unmarshal(tc.arguments)
        r == Invoke(c, ts, disp, tc.id, tc.name, parsed.args, aborted,
                    autoAll, answer)
        called == <<Event("callback", tc.id, tc.name, "")>> \o r.events
                  \o <<Returned(tc.id, tc.name, r.err)>>
    IN
    IF parsed.err # NoError
    THEN Step(<<ToolMsg(Content("Error parsing arguments: %v", NilValue,
                                parsed.err, {}, NoUseTool), tc)>>,
              <<>>, Running, aborted, autoAll)
    ELSE IF r.err # NoError
    THEN Step(<<ToolMsg(Content("Error: %v", NilValue, r.err, {},
                                NoUseTool), tc)>>,
              called, Running, r.userAborted, r.autoApproveAll)
    ELSE Step(<<ToolMsg(LocalResultStr(r.value), tc)>>,
              called, Running, r.userAborted, r.autoApproveAll)

\* parseToolCallFromResponse: the embedded object, or nothing
parseToolCallFromResponse(content) ==
    IF /\ content.embedded.present
       /\ content.embedded.balanced
       /\ content.embedded.toolName # ""
    THEN <<content.embedded>>
    ELSE <<>>

\* the textual tool-call branch without the check of the tool name
LocalClientTextToolCall_NoNameCheck(c, ts, disp, call, aborted, autoAll, answer) ==
    LET r == Invoke(c, ts, disp, "", call.toolName, call.parameters, aborted,
                    autoAll, answer)
        called == <<Event("callback", "", call.toolName, "")>> \o r.events
                  \o <<Returned("", call.toolName, r.err)>>
        user(content) == Msg(RoleUser, content, <<>>, "", "")
    IN
    IF r.err # NoError
    THEN Step(<<user(Content("Tool execution failed: %v. Available tools: ",
                             NilValue, r.err, {}, NoUseTool))>>,
              called, Running, r.userAborted, r.autoApproveAll)
    ELSE Step(<<user(Content("Tool '%s' result: %s", LocalResultStr(r.value).value,
                             NoError, {}, NoUseTool))>>,
              called, Running, r.userAborted, r.autoApproveAll)

\* the textual tool-call branch (both paths)
LocalClientTextToolCall(c, ts, disp, call, aborted, autoAll, answer) ==
    LET r == Invoke(c, ts, disp, "", call.toolName, call.parameters, aborted,
                    autoAll, answer)
        called == <<Event("callback", "", call.toolName, "")>> \o r.events
                  \o <<Returned("", call.toolName, r.err)>>
        user(content) == Msg(RoleUser, content, <<>>, "", "")
    IN
    IF call.toolName \notin ToolNames(ts)
    THEN Step(<<user(Content("ERROR: Tool '%s' not found. Available tools: %s.",
                             Value("string", call.toolName), NoError, {},
                             NoUseTool))>>,
              <<>>, Running, aborted, autoAll)
    ELSE IF r.err # NoError
    THEN Step(<<user(Content("Tool execution failed: %v. Available tools: ",
                             NilValue, r.err, {}, NoUseTool))>>,
              called, Running, r.userAborted, r.autoApproveAll)
    ELSE Step(<<user(Content("Tool '%s' result: %s", LocalResultStr(r.value).value,
                             NoError, {}, NoUseTool))>>,
              called, Running, r.userAborted, r.autoApproveAll)

-----------------------------------------------------------------------------
(* What the backend may answer to a chat-completion request *)

UseTool(name, parameters) ==
    [present |-> TRUE, balanced |-> TRUE, toolName |-> name,
     parameters |-> parameters]

Assistant(content, toolCalls) == Msg(RoleAssistant, content, toolCalls, "", "")

Final == Assistant(Text("final answer"), <<>>)

okCall(id) == ToolCall(id, "fs_read_file", ArgsPathTmp)
failCall(id) == ToolCall(id, "fs_read_file", ArgsPathMissingFile)
dirCall(id) == ToolCall(id, "fs_read_file", ArgsPathDir)
missingCall(id) == ToolCall(id, "fs_read_file", ArgsEmpty)
mockMissingCall(id) == ToolCall(id, "mock_read_file", ArgsEmpty)
badArgsCall(id) == ToolCall(id, "fs_read_file", ArgsMalformed)
bogusCall(id) == ToolCall(id, "bogus_tool", ArgsPathTmp)

NativeReplies ==
    {Assistant(Text(""), <<okCall("call_1")>>),
     Assistant(Text(""), <<okCall("")>>)}
    \cup {Assistant(Text(""), <<first, okCall("call_2")>>) :
            first \in {okCall("call_1"), failCall("call_1"), dirCall("call_1"),
                       missingCall("call_1"), mockMissingCall("call_1"),
                       badArgsCall("call_1"), bogusCall("call_1")}}

TextReplies ==
    {Assistant(Content("%s", Value("string", "text"), NoError, {},
                       UseTool(n, ArgsPathTmp.obj)), <<>>) :
        n \in {"fs_read_file", "bogus_tool"}}
    \cup {Assistant(Content("%s", Value("string", "text"), NoError, {},
                            UseTool("fs_read_file", ArgsPathMissingFile.obj)),
                    <<>>)}

Reply(kind, msg) == [kind |-> kind, msg |-> msg]

\* while the budget lasts the backend answers anything; afterwards it either
\* finishes or keeps asking for the same successful call
Replies(l, d, free) ==
    IF free > 0
    THEN {Reply("error", Final), Reply("message", Final)}
         \cup {Reply("message", m) :
                 m \in (IF l = "LOCAL" /\ d = "ollama" THEN {}
                        ELSE NativeReplies)
                       \cup (IF l = "LOCAL" THEN TextReplies ELSE {})}
    ELSE {Reply("message", Final),
          Reply("message",
                IF l = "LOCAL" /\ d = "ollama"
                THEN Assistant(Content("%s", Value("string", "text"), NoError,
                                       {}, UseTool("fs_read_file",
                                                   ArgsPathTmp.obj)), <<>>)
                ELSE Assistant(Text(""), <<okCall("call_1")>>))}

\* what the user types when asked
Answers(free) == IF free > 0 THEN Decisions ELSE {"approve"}

-----------------------------------------------------------------------------
(* The conversation each loop starts from *)

\* EnhanceMessageWithTools
EnhanceMessageWithTools(message, toolCount) ==
    IF toolCount = 0 THEN Text(message)
    ELSE Content("%s\n\nNote: You have access to %d tools.",
                 Value("string", message), NoError, {}, NoUseTool)

SystemPrompt == Msg(RoleSystem, Text("system prompt"), <<>>, "", "")

UserTurn(content) == Msg(RoleUser, content, <<>>, "", "")

\* ConvertConversationToOpenAIWithTools of a session holding one user message:
\* the system turn, then the session's messages
ConvertConversationToOpenAIWithTools(ts) ==
    <<SystemPrompt, UserTurn(EnhanceMessageWithTools("question", Len(ts)))>>

\* LocalClient prepends the tool context when tools are offered
LocalEnhancedMessage(message, ts) ==
    IF Len(ts) > 0
    THEN Content("IMPORTANT: Available tools for use (use EXACT names): ...%s",
                 Value("string", message), NoError, {}, NoUseTool)
    ELSE Text(message)

InitialMessages(l, ts) ==
    IF l = "PWT"
    THEN <<UserTurn(EnhanceMessageWithTools("question", Len(ts)))>>
    ELSE IF l = "PTC" THEN ConvertConversationToOpenAIWithTools(ts)
    ELSE IF l = "LOCAL" THEN <<UserTurn(LocalEnhancedMessage("question", ts))>>
    ELSE <<SystemPrompt, UserTurn(Text("question"))>>

\* the iteration cap of each loop
Cap(l) == IF l = "LOCAL" THEN LocalMaxToolIterations
          ELSE IF l = "FREE" THEN maxIterations
          ELSE MaxToolIterations

\* the error each loop returns when the cap is hit
CapError(l) ==
    IF l = "FREE"
    THEN Err("maximum iterations reached without final response", "")
    ELSE ErrMaxIterationsExceeded(Cap(l))

\* loop, dialect, callback, display and offered tools as the program wires them
Configurations ==
    {[loop |-> l, dialect |-> "openai", caller |-> "nil", display |-> "none",
      tools |-> <<>>] : l \in {"PWT", "LOCAL"}}
    \cup {[loop |-> "LOCAL", dialect |-> "ollama", caller |-> "nil",
           display |-> "none", tools |-> <<>>]}
    \cup {[loop |-> l, dialect |-> "openai", caller |-> "registry",
           display |-> "none", tools |-> Catalog] :
            l \in {"PWT", "PTC", "LOCAL", "FREE"}}
    \cup {[loop |-> l, dialect |-> "openai", caller |-> "ui_wrapped",
           display |-> d, tools |-> Catalog] :
            l \in {"PWT", "PTC", "LOCAL"},
            d \in {"noninteractive", "interactive"}}
    \cup {[loop |-> "LOCAL", dialect |-> "ollama", caller |-> c,
           display |-> IF c = "registry" THEN "none" ELSE "interactive",
           tools |-> Catalog] : c \in {"registry", "ui_wrapped"}}
    \cup {[loop |-> "FREE", dialect |-> "openai", caller |-> "approval",
           display |-> d, tools |-> Catalog] :
            d \in {"noninteractive", "interactive"}}

-----------------------------------------------------------------------------
(* The provider registry (mcp.Manager) as NewManager leaves it: the servers *)
(* of mcp_servers.json in the status they were saved with, and no process   *)

RegistryVars == <<servers, processes, procs, storage, discovered, connecting,
                  checks, uuids, inflight, now, op, mcpTools>>

\* pc is where the call is; transport, url and status are those of the server
\* it looked up, stored is the process it found in Manager.processes, proc the
\* fresh process it started
NoCall ==
    [pc |-> "idle", id |-> 0, tool |-> <<>>, transport |-> "", url |-> "", stored |-> 0,
     proc |-> 0, live |-> FALSE, reply |-> "none", err |-> NoError, status |-> ""]
NoOp == [kind |-> "NewManager", id |-> 0, reply |-> "none", err |-> NoError, status |-> ""]

\* what mcp_servers.json holds when the program starts: nothing, or what an
\* earlier `mcp add` saved: a stdio server that answered tools/list, or an sse
\* server, saved before its goroutine ran
SavedServers ==
    { <<>>,
      (1 :> [name |-> <<"m", "y", "-", "d", "b">>, transport |-> "stdio",
             url |-> "npx -y server-filesystem /tmp", status |-> "available",
             lastPing |-> 1, tools |-> {<<"l", "s">>}]),
      (1 :> [name |-> <<"m", "y", "-", "d", "b">>, transport |-> "stdio",
             url |-> "mock", status |-> "available",
             lastPing |-> 1, tools |-> {<<"e", "c", "h", "o">>}]),
      (1 :> [name |-> <<"m", "y", "-", "d", "b">>, transport |-> "sse",
             url |-> "http://localhost:3000/sse", status |-> "pending",
             lastPing |-> 0, tools |-> {}]) }

NewManager ==
    \E saved \in SavedServers :
        /\ servers = saved
        /\ processes = <<>>
        /\ procs = <<>>
        /\ storage = saved
        /\ discovered = { id \in DOMAIN saved : saved[id].status = "available" }
        /\ connecting = EmptyBag
        /\ checks = {}
        /\ uuids = Cardinality(DOMAIN saved)
        /\ inflight = NoCall
        /\ now = 1
        /\ op = NoOp
        /\ mcpTools = {}

\* mcp_servers.json does not exist: LoadMCPServers returns an empty map
NoSavedServers == storage = <<>>

\* the services outside the tool loops, the session and the registry
ProviderVars == <<providers, providerFile, llmLock, listing>>
StreamVars == <<stream, producer, channel>>
ServiceVars == <<ProviderVars, StreamVars, runs, factory, chat, rpc, locks>>

\* no provider file on disk: LoadLLMProviders returns an empty map
NoProviders ==
    /\ providers = <<>>
    /\ providerFile = <<>>
    /\ llmLock = 0
    /\ listing = {}

\* no stream was asked for
NoStream ==
    /\ stream = [client |-> "none", post |-> "ok", body |-> <<>>, tail |-> FALSE,
                 end |-> "eof"]
    /\ producer = [pc |-> "idle", next |-> 1, err |-> NoError]
    /\ channel = [chunks |-> <<>>, closes |-> 0, panic |-> ""]

MaxRuns == 2

\* a conversation run that was not asked for
NoRun == [pc |-> "idle", message |-> "", result |-> "", loaded |-> <<>>,
          before |-> <<>>, alone |-> TRUE]

MaxRequests == 2

\* the provider and the client of a CreateClient that was not called
NoProvider == [type |-> "", model |-> <<>>, apiKey |-> "", endpoint |-> <<>>]
NoClient == [id |-> 0, provider |-> NoProvider]
NoRequest == [pc |-> "idle", provider |-> NoProvider, client |-> NoClient, err |-> NoError]

NewDefaultClientFactory ==
    factory = [clients |-> <<>>, made |-> 0,
               calls |-> [q \in 1..MaxRequests |-> NoRequest]]

\* the chat loop at its prompt before the first input
NoChat ==
    [pc |-> "prompt", inputs |-> 0, message |-> "", before |-> <<>>, path |-> "none",
     goroutine |-> "idle", answer |-> "",
     ch |-> [chunks |-> <<>>, closes |-> 0, panic |-> ""], got |-> 0]

\* callers of one MCPProcess at a time
MaxRpcCallers == 2

\* a caller of the process that has not called
NoRpcCall == [pc |-> "idle", id |-> 0, req |-> 0, sentAt |-> 0, mailbox |-> 0, out |-> "none"]

\* NewMCPProcess: no request written, no response channel registered; unix is
\* time.Now().Unix(), counted from a second later than the fixed ids 1 and 2
NoRpc ==
    [phase |-> "new", nextID |-> 1, unix |-> 1000, responses |-> <<>>, stdin |-> <<>>,
     answered |-> {}, calls |-> [c \in 1..MaxRpcCallers |-> NoRpcCall]]

\* goroutines that call the registry at a time
MaxThreads == 2

\* Manager.mu unlocked and no call of the registry under way
NoLocks ==
    [w |-> 0, r |-> {}, threads |-> [t \in 1..MaxThreads |-> [op |-> "none", pc |-> 0]]]

ServicesIdle ==
    /\ NoProviders
    /\ NoStream
    /\ runs = [r \in 1..MaxRuns |-> NoRun]
    /\ NewDefaultClientFactory
    /\ chat = NoChat
    /\ rpc = NoRpc
    /\ locks = NoLocks

-----------------------------------------------------------------------------
(* The state machine: one run of one tool loop *)

Init ==
    \E cfg \in Configurations :
        /\ loop = cfg.loop
        /\ dialect = cfg.dialect
        /\ caller = cfg.caller
        /\ display = cfg.display
        /\ tools = cfg.tools
        /\ messages = InitialMessages(cfg.loop, cfg.tools)
        /\ iteration = 0
        /\ pc = "request"
        /\ k = 0
        /\ calls = <<>>
        /\ textCall = NoUseTool
        /\ result = Running
        /\ userAborted = FALSE
        /\ autoApproveAll = FALSE
        /\ trace = <<>>
        /\ NewManager
        /\ NoSavedServers
    /\ ServicesIdle
        /\ freeReplies = MaxFreeReplies
        /\ freeAnswers = MaxFreeAnswers
        /\ session = <<>>

\* where the loop goes once the backend's message is appended
AfterReply(l, d, c, ts, msg) ==
    LET parsed == parseToolCallFromResponse(msg.content)
        textual == c # "nil" /\ Len(ts) > 0 /\ parsed # <<>>
    IN
    IF l = "LOCAL"
    THEN IF d = "openai" /\ Len(msg.tool_calls) > 0 /\ c # "nil"
         THEN "dispatch"
         ELSE IF textual THEN "dispatch_text" ELSE "return"
    ELSE IF Len(msg.tool_calls) > 0 THEN "dispatch" ELSE "return"

\* the message a loop appends for the backend's answer: the Ollama path keeps
\* the content only
Appended(l, d, msg) ==
    IF l = "LOCAL" /\ d = "ollama" THEN Assistant(msg.content, <<>>) ELSE msg

\* one chat-completion request and the handling of its response, up to the
\* point where the loop returns or starts on the tool calls
BackendReply ==
    /\ pc = "request"
    /\ iteration < Cap(loop)
    /\ \E r \in Replies(loop, dialect, freeReplies) :
        LET next == AfterReply(loop, dialect, caller, tools, r.msg)
            parsed == parseToolCallFromResponse(r.msg.content)
        IN
        /\ trace' = Append(trace, Event("request", "", "", ""))
        /\ freeReplies' = IF freeReplies > 0 THEN freeReplies - 1 ELSE 0
        /\ IF r.kind = "error"
           THEN /\ result' = ReturnError(Err("API request failed", ""))
                /\ pc' = "done"
                /\ UNCHANGED <<messages, k, calls, textCall>>
           ELSE /\ messages' = Append(messages, Appended(loop, dialect, r.msg))
                /\ pc' = IF next = "return" THEN "done" ELSE next
                /\ result' = IF next = "return"
                             THEN ReturnText(r.msg.content) ELSE Running
                /\ k' = IF next = "dispatch" THEN 1 ELSE 0
                /\ calls' = IF next = "dispatch" THEN r.msg.tool_calls
                            ELSE <<>>
                /\ textCall' = IF next = "dispatch_text" THEN parsed[1]
                               ELSE NoUseTool
    /\ UNCHANGED <<loop, dialect, caller, display, tools, iteration,
                   userAborted, autoApproveAll, freeAnswers, session>>
    /\ UNCHANGED <<RegistryVars, ServiceVars>>

\* the body of the loop a given client runs for one tool call
ToolCallStep(l, c, ts, disp, tc, nCalls, i, aborted, autoAll, answer) ==
    IF l = "FREE"
    THEN CallOpenAIWithToolsToolCall(c, ts, disp, tc, nCalls, i, aborted,
                                     autoAll, answer)
    ELSE IF l = "LOCAL"
    THEN LocalClientToolCall(c, ts, disp, tc, aborted, autoAll, answer)
    ELSE OpenAIClientToolCall(c, ts, disp, tc, aborted, autoAll, answer)

\* the end of an iteration: continue, unless the cap is reached
Continue(st) ==
    /\ iteration' = IF st.ret # Running THEN iteration ELSE iteration + 1
    /\ IF st.ret # Running
       THEN pc' = "done" /\ result' = st.ret
       ELSE IF iteration + 1 >= Cap(loop)
       THEN pc' = "done" /\ result' = ReturnError(CapError(loop))
       ELSE pc' = "request" /\ result' = Running

Prompted(st) ==
    \E i \in 1..Len(st.events) : st.events[i].ev = "prompt"

Apply(st) ==
    /\ messages' = messages \o st.msgs
    /\ trace' = trace \o st.events
    /\ userAborted' = st.userAborted
    /\ autoApproveAll' = st.autoApproveAll
    /\ freeAnswers' = IF Prompted(st) /\ display = "interactive"
                         /\ freeAnswers > 0
                      THEN freeAnswers - 1 ELSE freeAnswers

\* the loop processes the k-th tool call of the assistant turn; after the last
\* one the iteration ends
DispatchToolCall ==
    /\ pc = "dispatch"
    /\ \E answer \in Answers(freeAnswers) :
        LET st == ToolCallStep(loop, caller, tools, display, calls[k],
                               Len(calls), iteration, userAborted,
                               autoApproveAll, answer)
        IN
        /\ Apply(st)
        /\ IF st.ret = Running /\ k < Len(calls)
           THEN /\ k' = k + 1
                /\ UNCHANGED <<pc, result, iteration, calls>>
           ELSE /\ k' = 0
                /\ calls' = <<>>
                /\ Continue(st)
    /\ UNCHANGED <<loop, dialect, caller, display, tools, textCall,
                   freeReplies, session>>
    /\ UNCHANGED <<RegistryVars, ServiceVars>>

\* the local loop executes the tool call it found in the model's text
DispatchTextToolCall ==
    /\ pc = "dispatch_text"
    /\ \E answer \in Answers(freeAnswers) :
        LET st == LocalClientTextToolCall(caller, tools, display, textCall,
                                          userAborted, autoApproveAll, answer)
        IN
        /\ Apply(st)
        /\ Continue(st)
    /\ textCall' = NoUseTool
    /\ UNCHANGED <<loop, dialect, caller, display, tools, k, calls,
                   freeReplies, session>>
    /\ UNCHANGED <<RegistryVars, ServiceVars>>

Next ==
    \/ BackendReply
    \/ DispatchToolCall
    \/ DispatchTextToolCall

Spec == Init /\ [][Next]_vars

-----------------------------------------------------------------------------
(* ConversationSession: the mutators of a session's message sequence, called *)
(* in any order with any arguments                                           *)

SessionTexts == {"hello", "hi"}
SessionToolCalls == {<<okCall("call_1")>>, <<okCall("call_1"), okCall("call_2")>>}
SessionIds == {"", "call_1", "call_2"}

SessionInit ==
    /\ session = <<>>
    /\ loop = "none"
    /\ dialect = "openai"
    /\ caller = "nil"
    /\ display = "none"
    /\ tools = <<>>
    /\ messages = <<>>
    /\ iteration = 0
    /\ pc = "done"
    /\ k = 0
    /\ calls = <<>>
    /\ textCall = NoUseTool
    /\ result = Running
    /\ userAborted = FALSE
    /\ autoApproveAll = FALSE
    /\ trace = <<>>
    /\ freeReplies = 0
    /\ freeAnswers = 0
    /\ NewManager
    /\ NoSavedServers
    /\ ServicesIdle

LoopVars == <<loop, dialect, caller, display, tools, messages, iteration, pc,
              k, calls, textCall, result, userAborted, autoApproveAll, trace,
              freeReplies, freeAnswers>>

\* the role is any string: the four roles of the struct comment are tried
AddMessage ==
    /\ Len(session) < MaxSessionLen
    /\ \E role \in {RoleUser, RoleAssistant, RoleSystem, RoleTool}, content \in SessionTexts :
        session' = Append(session, Msg(role, Text(content), <<>>, "", ""))
    /\ UNCHANGED LoopVars
    /\ UNCHANGED <<RegistryVars, ServiceVars>>

AddToolCall ==
    /\ Len(session) < MaxSessionLen
    /\ \E toolCalls \in SessionToolCalls :
        session' = Append(session, Msg(RoleAssistant, Text(""), toolCalls, "", ""))
    /\ UNCHANGED LoopVars
    /\ UNCHANGED <<RegistryVars, ServiceVars>>

AddToolResult ==
    /\ Len(session) < MaxSessionLen
    /\ \E toolCallID \in SessionIds, res \in SessionTexts :
        session' = Append(session, Msg(RoleTool, Text(res), <<>>, toolCallID,
                                       "fs_read_file"))
    /\ UNCHANGED LoopVars
    /\ UNCHANGED <<RegistryVars, ServiceVars>>

SessionNext ==
    \/ AddMessage
    \/ AddToolCall
    \/ AddToolResult

SessionSpec == SessionInit /\ [][SessionNext]_vars

-----------------------------------------------------------------------------
(* Observations on a run *)

Happened(ev) == {i \in DOMAIN trace : trace[i].ev = ev}
Requests == Cardinality(Happened("request"))

\* the assistant turns that ask for a tool, natively or in their text
AskedForTool(m) ==
    /\ m.role = RoleAssistant
    /\ m.tool_calls # <<>> \/ m.content.embedded.present
RepliesWithToolCalls == {i \in DOMAIN messages : AskedForTool(messages[i])}

Finished == pc = "done" /\ loop # "none"

-----------------------------------------------------------------------------
(* C1 *)

\* C1: every tool loop sends at most MaxToolIterations requests to the
\* backend, and when every one of that many replies asked for a tool the loop
\* has returned the max-iterations-exceeded error that carries the cap.
C1_CapErrorCarriesCap ==
    /\ Requests <= MaxToolIterations
    /\ (/\ Finished
        /\ Requests = MaxToolIterations
        /\ Cardinality(RepliesWithToolCalls) = MaxToolIterations)
       => result = ReturnError(ErrMaxIterationsExceeded(MaxToolIterations))

\* CallOpenAIWithTools ran into its cap and returned an error without it
C1_CapErrorWithoutCap ==
    /\ loop = "FREE"
    /\ Finished
    /\ Requests = maxIterations
    /\ Cardinality(RepliesWithToolCalls) = maxIterations
    /\ result.status = "error"
    /\ result.err = Err("maximum iterations reached without final response", "")

-----------------------------------------------------------------------------
(* C2 *)

\* the events the step under way adds to the trace
Failed(i) ==
    /\ i \in (Len(trace) + 1)..Len(trace')
    /\ trace'[i].ev = "returned"
    /\ trace'[i].err # NoError

\* after a callback error the loop goes on: to the next tool call of the turn,
\* or to the next iteration, which only the cap can stop
GoesOn ==
    IF k < Len(calls)
    THEN pc' = "dispatch" /\ k' = k + 1 /\ result' = Running
    ELSE /\ iteration' = iteration + 1
         /\ \/ pc' = "request" /\ result' = Running
            \/ /\ iteration' = Cap(loop)
               /\ pc' = "done"
               /\ result' = ReturnError(CapError(loop))

\* the tool-role turn the step appended for an error of the k-th call
ErrorTurn(err) ==
    /\ Len(messages') = Len(messages) + 1
    /\ messages'[Len(messages')].role = RoleTool
    /\ messages'[Len(messages')].tool_call_id = calls[k].id
    /\ messages'[Len(messages')].content.err = err

\* C2 (as amended): when the invoke-callback returns an error for a native
\* tool call, the loop appends a tool-role turn keyed by that call's id whose
\* content carries the error - "Error: <msg>" in the client-hosted loops, the
\* JSON object {error, hints, suggestion} in CallOpenAIWithTools - and goes on
\* with the remaining tool calls and the next iteration; the loop does not
\* return the error.
C2_CallbackErrorBecomesToolTurn ==
    [][pc = "dispatch" =>
        \A i \in DOMAIN trace' : Failed(i) =>
            /\ ErrorTurn(trace'[i].err)
            /\ IF loop = "FREE"
               THEN /\ messages'[Len(messages')].content.form = "json"
                    /\ messages'[Len(messages')].content.value
                         = Value("object", "error,hints,suggestion")
               ELSE messages'[Len(messages')].content.form = "Error: %v"
            /\ GoesOn]_vars

\* C2 (as stated): the appended turn's content is "Error: <msg>" in every loop
C2_ContentIsErrorColonMsg ==
    [][pc = "dispatch" =>
        \A i \in DOMAIN trace' : Failed(i) =>
            /\ ErrorTurn(trace'[i].err)
            /\ messages'[Len(messages')].content.form = "Error: %v"
            /\ GoesOn]_vars

\* in CallOpenAIWithTools a first tool call failed in the callback, its error
\* became a tool turn, the second call of the turn was processed and the loop
\* later returned an answer
C2_Recovered ==
    /\ loop = "FREE"
    /\ result.status = "ok"
    /\ \E i \in DOMAIN messages : \E j \in DOMAIN trace :
        /\ i + 1 \in DOMAIN messages
        /\ messages[i].role = RoleTool
        /\ messages[i].tool_call_id = "call_1"
        /\ trace[j].ev = "returned"
        /\ trace[j].id = "call_1"
        /\ trace[j].err # NoError
        /\ messages[i].content.err = trace[j].err
        /\ messages[i + 1].role = RoleTool
        /\ messages[i + 1].tool_call_id = "call_2"

-----------------------------------------------------------------------------
(* C3 *)

IsAssistant(i) == i \in DOMAIN messages /\ messages[i].role = RoleAssistant

\* the loop is done with the assistant turn at i: the next request has been
\* sent or is the next thing the loop does
NextRequestDue(i) ==
    \/ \E j \in DOMAIN messages : j > i /\ IsAssistant(j)
    \/ pc = "request"

\* C3: an assistant turn with N>1 tool calls is followed, before the next
\* backend request, by exactly N tool-role turns, the j-th keyed by the id of
\* the j-th tool call.
C3_OneToolTurnPerCall ==
    \A i \in DOMAIN messages :
        (IsAssistant(i) /\ Len(messages[i].tool_calls) > 1 /\ NextRequestDue(i))
        => LET n == Len(messages[i].tool_calls) IN
           /\ \A j \in 1..n :
                /\ i + j \in DOMAIN messages
                /\ messages[i + j].role = RoleTool
                /\ messages[i + j].tool_call_id = messages[i].tool_calls[j].id
           /\ (i + n + 1 \in DOMAIN messages
               => messages[i + n + 1].role # RoleTool)

\* OpenAIClient.ProcessWithTools without a callback is about to send its next
\* request right after an assistant turn with two tool calls
C3_NoToolTurnsWithoutCallback ==
    /\ loop = "PWT"
    /\ caller = "nil"
    /\ pc = "request"
    /\ IsAssistant(Len(messages))
    /\ Len(messages[Len(messages)].tool_calls) > 1

-----------------------------------------------------------------------------
(* C4 *)

\* C4: when a tool loop has returned successfully, the last message of its
\* sequence is an assistant message without tool calls and the returned text
\* is that message's content.
C4_LastMessageIsFinalAnswer ==
    (Finished /\ result.status = "ok")
    => /\ IsAssistant(Len(messages))
       /\ messages[Len(messages)].tool_calls = <<>>
       /\ result.text = messages[Len(messages)].content

\* LocalClient.ProcessWithTools returned successfully with a last message that
\* still carries tool calls
C4_ReturnedWithPendingToolCalls ==
    /\ loop = "LOCAL"
    /\ Finished
    /\ result.status = "ok"
    /\ messages[Len(messages)].tool_calls # <<>>

-----------------------------------------------------------------------------
(* C5 *)

ToolCallIds(m) == {m.tool_calls[c].id : c \in DOMAIN m.tool_calls}

WellKeyed(seq) ==
    \A i \in DOMAIN seq :
        seq[i].role = RoleTool
        => /\ seq[i].tool_call_id # ""
           /\ \E j \in 1..(i - 1) :
                /\ seq[j].role = RoleAssistant
                /\ seq[i].tool_call_id \in ToolCallIds(seq[j])

\* C5: in the message sequence of a tool loop and in a stored session, every
\* tool-role message has a non-empty tool_call_id that is the id of a tool
\* call of an earlier assistant message of the same sequence.
C5_ToolMessagesAreKeyed == WellKeyed(messages) /\ WellKeyed(session)

\* a session whose tool result answers a tool call nobody made
C5_OrphanToolResult ==
    /\ Len(session) > 0
    /\ session[Len(session)].role = RoleTool
    /\ session[Len(session)].tool_call_id # ""
    /\ \A j \in DOMAIN session : session[j].tool_calls = <<>>

-----------------------------------------------------------------------------
(* C6, C7, C8: what the loop does with a tool call it must not invoke *)

\* the step under way hands the k-th tool call to the invoke-callback
PassedToCallback ==
    \E i \in (Len(trace) + 1)..Len(trace') : trace'[i].ev = "callback"

\* the step under way appends one tool-role turn keyed by the k-th call's id
AppendsToolTurn ==
    /\ Len(messages') = Len(messages) + 1
    /\ messages'[Len(messages')].role = RoleTool
    /\ messages'[Len(messages')].tool_call_id = calls[k].id

Parses(tc) == Unmarshal(tc.arguments).err = NoError
Offered(tc) == tc.name \in ToolNames(tools)
MissesRequired(tc) ==
    /\ Parses(tc)
    /\ Offered(tc)
    /\ \E r \in FindTool(tools, tc.name)[1].required :
            r \notin Keys(Unmarshal(tc.arguments).args)

\* C6: when the arguments of a tool call fail to parse, every tool loop
\* appends a tool-role turn keyed by the call id with the text
\* "Error parsing arguments: <msg>", does not invoke the callback for the call
\* and goes on instead of returning an error.
C6_ParseFailureBecomesToolTurn ==
    [][(pc = "dispatch" /\ ~Parses(calls[k])) =>
        /\ AppendsToolTurn
        /\ messages'[Len(messages')].content.form = "Error parsing arguments: %v"
        /\ ~PassedToCallback
        /\ GoesOn]_vars

\* CallOpenAIWithTools returned the parse failure as its own error
C6_ParseFailureReturned ==
    /\ loop = "FREE"
    /\ Finished
    /\ result = ReturnError(Err("failed to parse tool arguments: %w", ""))
    /\ messages[Len(messages)].role = RoleAssistant

\* C7: a tool call whose name is not in the offered catalog is never passed to
\* the invoke-callback; the loop appends a tool-role "not found" turn for it
\* and goes on.
C7_UnknownToolNotInvoked ==
    [][(pc = "dispatch" /\ Parses(calls[k]) /\ ~Offered(calls[k])) =>
        /\ ~PassedToCallback
        /\ AppendsToolTurn
        /\ messages'[Len(messages')].content.err = Err("tool %s not found", calls[k].name)
        /\ GoesOn]_vars

\* the invoke-callback was called with a name that is not in the catalog
C7_UnknownToolPassedToCallback ==
    /\ tools = Catalog
    /\ \E i \in Happened("callback") : trace[i].name = "bogus_tool"

\* C8: a tool call that omits a parameter the offered tool's schema lists as
\* required is not passed to the invoke-callback; a tool-role error turn is
\* appended for it instead.
C8_MissingRequiredNotInvoked ==
    [][(pc = "dispatch" /\ MissesRequired(calls[k])) =>
        /\ ~PassedToCallback
        /\ AppendsToolTurn
        /\ messages'[Len(messages')].content.err # NoError]_vars

\* the invoke-callback was called for fs_read_file without its required path,
\* and the provider was invoked with it
C8_IncompleteCallInvoked ==
    \E i \in Happened("returned") :
        /\ trace[i].name = "fs_read_file"
        /\ trace[i].err = Err("path argument is required", "")

-----------------------------------------------------------------------------
(* C9, C10: the approval gate *)

\* the prompt that let the invocation at i through: the one asked for that
\* very call and answered approve or approve-all, or an earlier one answered
\* approve-all
Approved(i) ==
    \/ /\ i - 1 \in Happened("prompt")
       /\ trace[i - 1].id = trace[i].id
       /\ trace[i - 1].name = trace[i].name
       /\ trace[i - 1].answer \in {"approve", "approve_all"}
    \/ \E j \in Happened("prompt") : j < i /\ trace[j].answer = "approve_all"

\* C9: with an interactive display sink no tool is invoked on a provider unless
\* the sink was prompted for that call and approved it, or approve-all is in
\* force; a call answered deny is not invoked.
C9_InvokeOnlyAfterApproval ==
    display = "interactive" => \A i \in Happened("invoke") : Approved(i)

\* a tool ran on its provider under an interactive sink that was never asked
C9_InvokedWithoutPrompt ==
    /\ display = "interactive"
    /\ caller = "ui_wrapped"
    /\ Happened("invoke") # {}
    /\ Happened("prompt") = {}

\* the sink answered abort to the prompt of the step under way
AbortAnswered ==
    \E i \in (Len(trace) + 1)..Len(trace') :
        /\ trace'[i].ev = "prompt"
        /\ trace'[i].answer = "abort"

\* C10: when the sink answers abort, the loop ends there with the user-abort
\* error and appends no tool-role turn for the aborted call, so no further
\* request is sent and no further tool is invoked.
C10_AbortEndsTheLoop ==
    [][(display = "interactive" /\ AbortAnswered) =>
        /\ messages' = messages
        /\ pc' = "done"
        /\ result' = ReturnError(
              Err("execution aborted by user - session terminated", ""))]_vars

\* after an abort the loop appended a tool-role turn for the aborted call and
\* sent another request to the backend
C10_RequestAfterAbort ==
    \E i \in Happened("prompt") : \E j \in Happened("request") :
        /\ trace[i].answer = "abort"
        /\ j > i
        /\ \E m \in DOMAIN messages :
            /\ messages[m].role = RoleTool
            /\ messages[m].tool_call_id = trace[i].id
            /\ messages[m].content.err
                 = Err("execution aborted by user - session terminated", "")

-----------------------------------------------------------------------------
(* C11 *)

ApproveAllAnswered(j) == trace[j].ev = "prompt" /\ trace[j].answer = "approve_all"

\* the callback was handed, at i, a call for a tool the catalog offers
OfferedCallAt(i) == trace[i].ev = "callback" /\ trace[i].name \in ToolNames(tools)

\* the call handed over at i was shown and invoked without a prompt
InvokedUnprompted(i) ==
    /\ i + 2 \in DOMAIN trace
    /\ trace[i + 1].ev = "show_tool_call"
    /\ trace[i + 2].ev = "invoke"
    /\ trace[i + 2].id = trace[i].id
    /\ trace[i + 2].name = trace[i].name

\* C11: once the sink has answered approve-all to a prompt, the call it was
\* asked about is invoked, no later prompt is issued in the run, and every
\* later call handed to the callback for an offered tool is invoked.
C11_ApproveAllSticks ==
    \A j \in DOMAIN trace : ApproveAllAnswered(j) =>
        /\ j + 1 \in DOMAIN trace
        /\ trace[j + 1].ev = "invoke"
        /\ trace[j + 1].id = trace[j].id
        /\ \A i \in DOMAIN trace : i > j => trace[i].ev # "prompt"
        /\ \A i \in DOMAIN trace : (i > j /\ OfferedCallAt(i)) => InvokedUnprompted(i)
        /\ autoApproveAll

\* approve-all was answered to a first call, and a call of a later iteration
\* was invoked without a prompt before the loop returned its answer
C11_LaterCallAutoApproved ==
    /\ result.status = "ok"
    /\ \E j \in DOMAIN trace : \E r \in Happened("request") : \E i \in DOMAIN trace :
        /\ ApproveAllAnswered(j)
        /\ j < r
        /\ r < i
        /\ OfferedCallAt(i)
        /\ InvokedUnprompted(i)

-----------------------------------------------------------------------------
(* The provider registry: mcp.Manager, the MCPProcess objects it creates,   *)
(* and the tool table Agent.prepareMCPTools builds from it.                  *)
(*                                                                           *)
(* Names are sequences of characters.  A server record carries the fields   *)
(* of types.MCPServer the manager reads or writes, except CreatedAt,         *)
(* UpdatedAt and Capabilities (the names of Tools).  A process record carries the state   *)
(* of the subprocess behind an MCPProcess: "unstarted" (cmd.Start never      *)
(* succeeded), "running", or "killed" (Stop killed it).                      *)

(* Program constants, in seconds *)

HealthCheckPeriod == 30
PersistentTimeout == 60
UnknownTransportTimeout == 120

(* Bounds of the model *)

\* number of AddServer calls
MaxServers == 2
\* number of MCPProcess objects created
MaxProcs == 2
\* number of health-check periods the clock advances
MaxTicks == 3
\* calls of AddServer, the saved server counted as one
MaxAdds == 2
\* sweeps of the health-check loop whose goroutines run at a time
MaxSweeps == 1

\* a goroutine of the sweep whose server is still the one in Manager.servers
Live == 0 - 1

ZeroTime == 0
Older(t, d) == t = ZeroTime \/ now - t > d

ServerIds == 1..MaxServers

\* the names given to servers: one where only the registry is looked at,
\* more where the names are
RegistryNames == { <<"m", "y", "-", "d", "b">> }
ServerNames == RegistryNames \cup { <<"d", "b", ".", "v", "2">>, <<"m", "y", " ", "d", "b">> }

\* what `mcp add [name] [url] [transport]` is given as url and transport
Launches ==
    { [transport |-> "stdio", url |-> "mock"],
      [transport |-> "stdio", url |-> "npx -y server-filesystem /tmp"],
      [transport |-> "sse", url |-> "http://localhost:3000/sse"],
      [transport |-> "http", url |-> "http://localhost:3000/mcp"],
      [transport |-> "websocket", url |-> "ws://localhost:3000"] }

IsMockURL(url) == url = "echo" \/ url = "mock"

\* the tools the launched command reports when it answers tools/list with a
\* non-empty list
ToolsOf(url) == IF IsMockURL(url) THEN { <<"e", "c", "h", "o">> } ELSE { <<"l", "s">> }

ToolInputs == { <<"l", "s">>, <<"e", "c", "h", "o">> }

(* MCPProcess *)

\* how the launched command behaves during Start
StartOutcomes == {"exec_failed", "initialize_failed", "no_tools", "tools"}

\* how it answers tools/call
CallReplies == {"result", "rpc_error", "timeout"}

NewMCPProcess(id, role) == [server |-> id, role |-> role, os |-> "unstarted", tools |-> {}]

StartErr(outcome) ==
    CASE outcome = "exec_failed" -> Err("failed to start MCP server: %w", "exec")
      [] outcome = "initialize_failed" -> Err("failed to initialize MCP connection: %w", "initialization failed")
      [] OTHER -> NoError

Start(p, url, outcome) ==
    [p EXCEPT !.os = IF outcome = "exec_failed" THEN "unstarted" ELSE "running",
              !.tools = IF outcome = "tools" THEN ToolsOf(url) ELSE {}]

Stop(p) == [p EXCEPT !.os = IF p.os = "running" THEN "killed" ELSE p.os]

ProcessCallTool(p, tool, reply) ==
    IF tool \notin p.tools THEN Err("tool %s not found", ToString(tool))
    ELSE CASE reply = "timeout" -> Err("tool call failed: %w", "request timeout")
           [] reply = "rpc_error" -> Err("tool call error: %s", "boom")
           [] reply = "write_failed" -> Err("tool call failed: %w", "failed to write request: %w")
           [] reply = "cancelled" -> Err("tool call failed: %w", "process cancelled")
           [] OTHER -> NoError

(* Manager *)

\* what is observed of a call: the status the server had when it was looked
\* up, how the process answered tools/call if it was asked, the error returned
Op(kind, id, reply, err, status) ==
    [kind |-> kind, id |-> id, reply |-> reply, err |-> err, status |-> status]

Without(f, id) == [i \in DOMAIN f \ {id} |-> f[i]]

\* a status change that sets LastPing whatever the new status is
UpdateServerStatus_AlwaysPings(srvs, id, status) ==
    IF id \notin DOMAIN srvs THEN srvs
    ELSE [srvs EXCEPT ![id] = [@ EXCEPT !.status = status, !.lastPing = now]]

UpdateServerStatus(srvs, id, status) ==
    IF id \notin DOMAIN srvs THEN srvs
    ELSE [srvs EXCEPT ![id] = [@ EXCEPT !.status = status,
                                        !.lastPing = IF status # "unhealthy" THEN now ELSE @]]

\* testStdioServer: the server record, whether the probe is stored in
\* Manager.processes, and whether the servers are saved again
testStdioServer(server, p, startErr) ==
    IF startErr # NoError
    THEN [server |-> [server EXCEPT !.status = "error"], stored |-> FALSE]
    ELSE IF p.tools # {}
         THEN [server |-> [server EXCEPT !.status = "available", !.tools = p.tools,
                                         !.lastPing = now],
               stored |-> TRUE]
         ELSE [server |-> [server EXCEPT !.status = "error"], stored |-> FALSE]

SweepsUnderWay == IF checks = {} THEN 0 ELSE 1

\* the goroutines of a sweep that hold the pointer of a server that was taken
\* out of Manager.servers: the LastPing they will read is the one it had
Detach(id) ==
    { IF c.id = id /\ c.pc = "read" /\ c.ping = Live
      THEN [c EXCEPT !.ping = servers[id].lastPing] ELSE c : c \in checks }

\* whether SaveMCPServers wrote the file: it did, or either
Saved == {TRUE}
SavedOrNot == BOOLEAN

\* the ID field of a types.MCPServer that was built without one: the empty
\* string; an ID that was set is written <<id>>
NoID == <<>>

\* the IDs AddServer is handed: `mcp add` builds the server from its three
\* arguments and sets no ID
CommandIDs == {NoID}

\* AddServer: the ID is a new uuid when the caller gave none, and the ID the
\* caller gave otherwise, which may be the ID of a server; SaveMCPServers may
\* fail, which is only printed
AddServer(ids, names, saves) ==
    /\ uuids < MaxAdds
    /\ \E given \in ids,
          name \in names, launch \in Launches, outcome \in StartOutcomes,
          saved \in saves, savedAgain \in saves :
        LET id == IF given = NoID THEN uuids + 1 ELSE given[1]
            server == [name |-> name, transport |-> launch.transport, url |-> launch.url,
                       status |-> "pending", lastPing |-> ZeroTime, tools |-> {}]
            pending == (id :> server) @@ servers
            file == IF saved THEN pending ELSE storage
            p == Start(NewMCPProcess(id, "probe"), launch.url, outcome)
            t == testStdioServer(server, p, StartErr(outcome))
        IN  /\ uuids' = uuids + 1
            /\ checks' = IF id \in DOMAIN servers THEN Detach(id) ELSE checks
            /\ IF launch.transport = "stdio"
               THEN /\ Len(procs) < MaxProcs
                    /\ t.stored \/ savedAgain = saved
                    /\ procs' = Append(procs, p)
                    /\ servers' = (id :> t.server) @@ servers
                    /\ processes' = IF t.stored
                                    THEN (id :> Len(procs) + 1) @@ processes
                                    ELSE processes
                    /\ storage' = IF t.stored /\ savedAgain THEN servers' ELSE file
                    /\ discovered' = IF StartErr(outcome) = NoError
                                     THEN discovered \cup {id} ELSE discovered \ {id}
                    /\ UNCHANGED connecting
               ELSE /\ outcome = "tools" /\ savedAgain = saved
                    /\ servers' = pending
                    /\ storage' = file
                    /\ connecting' = connecting (+) SetToBag({[id |-> id,
                                                              transport |-> launch.transport]})
                    /\ discovered' = discovered \ {id}
                    /\ UNCHANGED <<processes, procs>>
    /\ UNCHANGED <<inflight, now, op, mcpTools, session>>
    /\ UNCHANGED <<LoopVars, ServiceVars>>

\* a goroutine AddServer started for a server that is not stdio, one per
\* call of AddServer: it holds
\* the server it was started for, and changes the status of the server that
\* has its ID when it runs
connectToServer ==
    /\ \E c \in BagToSet(connecting) :
        /\ connecting' = connecting (-) SetToBag({c})
        /\ servers' = IF c.transport \in {"sse", "http"}
                      THEN UpdateServerStatus(servers, c.id, "connected")
                      ELSE UpdateServerStatus(servers, c.id, "error")
    /\ UNCHANGED <<processes, procs, storage, discovered, checks, uuids, inflight, now,
                   op, mcpTools, session>>
    /\ UNCHANGED <<LoopVars, ServiceVars>>

RemoveServer(saves) ==
    /\ \E id \in ServerIds, saved \in saves :
        IF id \notin DOMAIN servers
        THEN UNCHANGED <<servers, processes, procs, storage, checks>>
        ELSE /\ procs' = IF id \in DOMAIN processes
                         THEN [procs EXCEPT ![processes[id]] = Stop(@)]
                         ELSE procs
             /\ processes' = Without(processes, id)
             /\ servers' = Without(servers, id)
             /\ storage' = IF saved THEN servers' ELSE storage
             /\ checks' = Detach(id)
    /\ UNCHANGED <<discovered, connecting, uuids, inflight, now, op, mcpTools,
                   session>>
    /\ UNCHANGED <<LoopVars, ServiceVars>>

\* performHealthChecks: the servers are copied under the read lock and one
\* goroutine is started for each
performHealthChecks ==
    /\ SweepsUnderWay < MaxSweeps
    /\ servers # <<>>
    /\ checks' = { [id |-> id, transport |-> servers[id].transport, ping |-> Live,
                    pc |-> "read"] : id \in DOMAIN servers }
    /\ UNCHANGED <<servers, processes, procs, storage, discovered, connecting, uuids,
                   inflight, now, op, mcpTools, session>>
    /\ UNCHANGED <<LoopVars, ServiceVars>>

\* the LastPing a goroutine of the sweep reads from the server it holds
LastPingOf(c) == IF c.ping = Live THEN servers[c.id].lastPing ELSE c.ping

\* variant: the timeout of persistent connections applies to stdio as well
Unhealthy_SweepsStdio(c) ==
    CASE c.transport \in {"stdio", "sse", "http"} ->
            Older(LastPingOf(c), PersistentTimeout)
      [] OTHER -> Older(LastPingOf(c), UnknownTransportTimeout)

\* what the switch of healthCheck decides for that server
Unhealthy(c) ==
    CASE c.transport = "stdio" -> FALSE
      [] c.transport \in {"sse", "http"} -> Older(LastPingOf(c), PersistentTimeout)
      [] OTHER -> Older(LastPingOf(c), UnknownTransportTimeout)

\* one goroutine of performHealthChecks up to its decision: LastPing is read
\* without Manager.mu
healthCheck(id) ==
    /\ \E c \in checks :
        /\ c.id = id /\ c.pc = "read"
        /\ checks' = (checks \ {c}) \cup
                        (IF Unhealthy(c) THEN {[c EXCEPT !.pc = "mark"]} ELSE {})
        /\ op' = Op("healthCheck", id, "none", NoError,
                    IF c.ping = Live THEN servers[id].status ELSE "")
    /\ UNCHANGED <<servers, processes, procs, storage, discovered, connecting, uuids,
                   inflight, now, mcpTools, session>>
    /\ UNCHANGED <<LoopVars, ServiceVars>>

\* the rest of that goroutine: UpdateServerStatus(server.ID, "unhealthy")
\* takes the lock and changes the server that has the ID now
healthCheckUnhealthy(id) ==
    /\ \E c \in checks :
        /\ c.id = id /\ c.pc = "mark"
        /\ checks' = checks \ {c}
        /\ servers' = UpdateServerStatus(servers, id, "unhealthy")
    /\ UNCHANGED <<processes, procs, storage, discovered, connecting, uuids,
                   inflight, now, op, mcpTools, session>>
    /\ UNCHANGED <<LoopVars, ServiceVars>>

healthChecks == \E id \in ServerIds : healthCheck(id) \/ healthCheckUnhealthy(id)

\* time passes: one period of the health-check ticker
Tick ==
    /\ now < 1 + MaxTicks * HealthCheckPeriod
    /\ now' = now + HealthCheckPeriod
    /\ UNCHANGED <<servers, processes, procs, storage, discovered, connecting,
                   checks, uuids, inflight, op, mcpTools, session>>
    /\ UNCHANGED <<LoopVars, ServiceVars>>

\* the process a call works on: the fresh one it started, or the one it found
\* in Manager.processes
ProcessOf(call) == IF call.proc # 0 THEN call.proc ELSE call.stored

\* Manager.CallTool from its lookup under the read lock to the early returns
\* that follow it
CallTool ==
    /\ inflight = NoCall
    /\ \E id \in ServerIds, tool \in ToolInputs :
        LET returns(err) ==
                /\ op' = Op("CallTool", id, "none", err,
                            IF id \in DOMAIN servers THEN servers[id].status ELSE "")
                /\ UNCHANGED inflight
            goes(at) ==
                /\ inflight' = [NoCall EXCEPT !.pc = at, !.id = id, !.tool = tool,
                                              !.transport = servers[id].transport,
                                              !.url = servers[id].url,
                                              !.stored = IF id \in DOMAIN processes
                                                         THEN processes[id] ELSE 0,
                                              !.status = servers[id].status]
                /\ UNCHANGED op
        IN  IF id \notin DOMAIN servers
            THEN returns(Err("MCP server %s not found", ToString(id)))
            ELSE IF servers[id].transport = "stdio"
            THEN IF IsMockURL(servers[id].url)
                 THEN IF id \notin DOMAIN processes
                      THEN returns(Err("MCP server %s not available", ToString(id)))
                      ELSE goes("call")
                 ELSE Len(procs) < MaxProcs /\ goes("start")
            ELSE IF id \notin DOMAIN processes
                 THEN returns(Err("MCP server %s not connected", ToString(id)))
                 ELSE goes("call")
    /\ UNCHANGED <<servers, processes, procs, storage, discovered, connecting, checks,
                   uuids, now, mcpTools, session>>
    /\ UNCHANGED <<LoopVars, ServiceVars>>

\* Manager.CallTool on a real stdio server: Start of the fresh process, and
\* the return when it fails
CallToolStart ==
    /\ inflight.pc = "start"
    /\ Len(procs) < MaxProcs
    /\ \E outcome \in StartOutcomes :
        LET fresh == Start(NewMCPProcess(inflight.id, "invoke"), inflight.url, outcome)
        IN  /\ procs' = Append(procs, fresh)
            /\ discovered' = IF /\ StartErr(outcome) = NoError
                                /\ inflight.id \in DOMAIN servers
                                /\ servers[inflight.id].url = inflight.url
                             THEN discovered \cup {inflight.id} ELSE discovered
            /\ IF StartErr(outcome) # NoError
               THEN /\ op' = Op("CallTool", inflight.id, "none",
                                Err("failed to start MCP process: %w", StartErr(outcome).fmt),
                                inflight.status)
                    /\ inflight' = NoCall
               ELSE /\ inflight' = [inflight EXCEPT !.pc = "call", !.proc = Len(procs) + 1]
                    /\ UNCHANGED op
    /\ UNCHANGED <<servers, processes, storage, connecting, checks, uuids, now, mcpTools,
                   session>>
    /\ UNCHANGED <<LoopVars, ServiceVars>>

\* process.CallTool on the stored or the fresh process up to the select of
\* sendRequest: a tool the process does not have returns at once, the write
\* to the stdin of a stopped process may fail, and live records that the
\* request went to a running process
CallToolCall ==
    /\ inflight.pc = "call"
    /\ LET p == procs[ProcessOf(inflight)]
           answered(reply) ==
               inflight' = [inflight EXCEPT !.pc = "answered", !.reply = reply,
                                            !.err = ProcessCallTool(p, inflight.tool, reply)]
       IN  IF inflight.tool \notin p.tools
           THEN answered("none")
           ELSE \/ inflight' = [inflight EXCEPT !.pc = "waiting", !.live = (p.os = "running")]
                \/ p.os # "running" /\ answered("write_failed")
    /\ UNCHANGED <<servers, processes, procs, storage, discovered, connecting, checks,
                   uuids, now, op, mcpTools, session>>
    /\ UNCHANGED <<LoopVars, ServiceVars>>

\* the select of sendRequest, with no lock held: it takes a case that is
\* ready. The response and the timeout are those of a request that went to a
\* running process; <-p.ctx.Done() is ready once the process was stopped.
\* With more than one case ready, any of them is taken.
CallToolSelect ==
    /\ inflight.pc = "waiting"
    /\ \E reply \in CallReplies \cup {"cancelled"} :
        LET p == procs[ProcessOf(inflight)]
        IN  /\ reply \in CallReplies => inflight.live
            /\ reply = "cancelled" => p.os # "running"
            /\ inflight' = [inflight EXCEPT !.pc = "answered", !.reply = reply,
                                            !.err = ProcessCallTool(p, inflight.tool, reply)]
    /\ UNCHANGED <<servers, processes, procs, storage, discovered, connecting, checks,
                   uuids, now, op, mcpTools, session>>
    /\ UNCHANGED <<LoopVars, ServiceVars>>

\* Manager.CallTool from the return of process.CallTool to its own: the
\* LastPing update under the lock and the deferred Stop of the fresh process
CallToolReturn ==
    /\ inflight.pc = "answered"
    /\ servers' = IF inflight.err = NoError /\ inflight.id \in DOMAIN servers
                  THEN [servers EXCEPT ![inflight.id] =
                            [@ EXCEPT !.lastPing = now]]
                  ELSE servers
    /\ procs' = IF inflight.proc # 0
                THEN [procs EXCEPT ![inflight.proc] = Stop(@)]
                ELSE procs
    /\ op' = Op("CallTool", inflight.id, inflight.reply, inflight.err, inflight.status)
    /\ inflight' = NoCall
    /\ UNCHANGED <<processes, storage, discovered, connecting, checks, uuids, now,
                   mcpTools, session>>
    /\ UNCHANGED <<LoopVars, ServiceVars>>

(* Manager.GetAllTools and Agent.prepareMCPTools *)

Ready(server) == server.status \in {"available", "connected"}

\* the servers GetAllTools writes an entry for, and the entry
HasStoredTools(id) == servers[id].transport = "stdio" /\ servers[id].tools # {}
Contributes(id) == Ready(servers[id]) /\ (HasStoredTools(id) \/ id \in DOMAIN processes)
ToolsFrom(id) == IF HasStoredTools(id) THEN servers[id].tools ELSE procs[processes[id]].tools

\* GetAllTools ranges over a Go map and keys its result by server name: of
\* two servers with one name, the one visited last stays
GetAllTools ==
    LET names == { servers[id].name : id \in { i \in DOMAIN servers : Contributes(i) } }
        entries(n) == { ToolsFrom(id) : id \in { i \in DOMAIN servers :
                                                 Contributes(i) /\ servers[i].name = n } }
    IN  { f \in [names -> UNION { entries(n) : n \in names }] :
            \A n \in names : f[n] \in entries(n) }

ReplaceAll(s, old, new) == [i \in DOMAIN s |-> IF s[i] = old THEN new ELSE s[i]]

cleanServerName(serverName) == ReplaceAll(ReplaceAll(serverName, " ", "_"), "-", "_")

ExposedName(serverName, toolName) == cleanServerName(serverName) \o <<"_">> \o toolName

prepareMCPTools(allMCPTools) ==
    UNION { { [name |-> ExposedName(serverName, tool), serverName |-> serverName,
               toolName |-> tool] : tool \in allMCPTools[serverName] }
            : serverName \in DOMAIN allMCPTools }

PrepareMCPTools ==
    /\ \E allMCPTools \in GetAllTools :
        mcpTools' = prepareMCPTools(allMCPTools)
    /\ UNCHANGED <<servers, processes, procs, storage, discovered, connecting,
                   checks, uuids, inflight, now, op, session>>
    /\ UNCHANGED <<LoopVars, ServiceVars>>

RegistryInit ==
    /\ NewManager
    /\ ServicesIdle
    /\ session = <<>>
    /\ loop = "none"
    /\ dialect = "openai"
    /\ caller = "nil"
    /\ display = "none"
    /\ tools = <<>>
    /\ messages = <<>>
    /\ iteration = 0
    /\ pc = "done"
    /\ k = 0
    /\ calls = <<>>
    /\ textCall = NoUseTool
    /\ result = Running
    /\ userAborted = FALSE
    /\ autoApproveAll = FALSE
    /\ trace = <<>>
    /\ freeReplies = 0
    /\ freeAnswers = 0

\* the registry with no servers saved, where it is not what is looked at
IdleInit == RegistryInit /\ NoSavedServers

\* the program starts with a server in mcp_servers.json
SavedInit == RegistryInit /\ ~NoSavedServers

\* the servers of the registry and the health-check loop
RegistryNext ==
    \/ AddServer(CommandIDs, RegistryNames, Saved)
    \/ connectToServer
    \/ RemoveServer(Saved)
    \/ performHealthChecks
    \/ healthChecks
    \/ Tick

RegistrySpec == RegistryInit /\ [][RegistryNext]_vars

\* the servers of the registry and the calls of their tools, with a file that
\* may not be written
InvokeNext ==
    \/ AddServer(CommandIDs, RegistryNames, SavedOrNot)
    \/ connectToServer
    \/ RemoveServer(SavedOrNot)
    \/ CallTool
    \/ CallToolStart
    \/ CallToolCall
    \/ CallToolSelect
    \/ CallToolReturn

InvokeSpec == RegistryInit /\ [][InvokeNext]_vars

\* the calls of tools next to the health-check loop, on the saved server and
\* one that is added
PingNext ==
    \/ AddServer(CommandIDs, RegistryNames, Saved)
    \/ connectToServer
    \/ performHealthChecks
    \/ healthChecks
    \/ Tick
    \/ CallTool
    \/ CallToolStart
    \/ CallToolCall
    \/ CallToolSelect
    \/ CallToolReturn

PingSpec == SavedInit /\ [][PingNext]_vars

\* the registry as the agent sees it when it prepares the tools of a request
CatalogNext ==
    \/ AddServer(CommandIDs, ServerNames, Saved)
    \/ connectToServer
    \/ RemoveServer(Saved)
    \/ PrepareMCPTools

CatalogSpec == RegistryInit /\ [][CatalogNext]_vars

-----------------------------------------------------------------------------
(* Claims about the provider registry *)

\* C12: in every reachable registry state, a provider of any transport whose
\* status is available or connected has completed at least one successful
\* tool discovery, and a provider with an empty catalog is never available.
C12_ReadyMeansDiscovered ==
    \A id \in DOMAIN servers :
        /\ Ready(servers[id]) => id \in discovered
        /\ servers[id].tools = {} => servers[id].status # "available"

\* an sse or http provider is connected although no tools/list was ever sent
\* to it
C12_ConnectedWithoutDiscovery ==
    \E id \in DOMAIN servers :
        /\ servers[id].transport \in {"sse", "http"}
        /\ servers[id].status = "connected"
        /\ id \notin discovered
        /\ servers[id].tools = {}

\* C13: a health-check sweep never changes the status of a stdio provider,
\* however old its last-ping is; the only status change a sweep makes is to
\* move a provider that is not stdio to unhealthy.
C13_SweepLeavesStdioAlone ==
    [][\A id \in ServerIds : (healthCheck(id) \/ healthCheckUnhealthy(id)) =>
          /\ (id \in DOMAIN servers /\ servers[id].transport = "stdio") => servers' = servers
          /\ \A i \in DOMAIN servers :
                servers'[i].status # servers[i].status =>
                    /\ i = id
                    /\ servers[i].transport # "stdio"
                    /\ servers'[i].status = "unhealthy"]_vars

\* the sweep has just visited an available stdio provider whose last ping is
\* older than the timeout of persistent connections, and left it available,
\* while an sse provider was moved to unhealthy
C13_StaleStdioStillAvailable ==
    /\ op.kind = "healthCheck"
    /\ op.id \in DOMAIN servers
    /\ servers[op.id].transport = "stdio"
    /\ servers[op.id].lastPing # ZeroTime
    /\ now - servers[op.id].lastPing > PersistentTimeout
    /\ servers[op.id].status = "available"
    /\ \A c \in checks : c.id # op.id
    /\ \E j \in DOMAIN servers :
        servers[j].transport = "sse" /\ servers[j].status = "unhealthy"

\* C14: a successful invoke sets the provider's last-ping to the current time,
\* whatever its transport, and a status change to unhealthy leaves last-ping
\* exactly as it was before the change.
C14_LastPingOnSuccessOnly ==
    [][/\ (CallToolReturn /\ inflight.err = NoError /\ inflight.id \in DOMAIN servers)
            => servers'[inflight.id].lastPing = now
       /\ \A id \in DOMAIN servers \cap DOMAIN servers' :
            (servers[id].status # "unhealthy" /\ servers'[id].status = "unhealthy")
                => servers'[id].lastPing = servers[id].lastPing]_vars

\* an invoke has just returned without error more than a minute after the
\* manager started and the provider's last-ping is now, while a provider
\* moved to unhealthy still carries the last-ping it had
C14_PingedByInvoke ==
    /\ op.kind = "CallTool"
    /\ op.err = NoError
    /\ inflight = NoCall
    /\ op.id \in DOMAIN servers
    /\ servers[op.id].lastPing = now
    /\ now > PersistentTimeout
    /\ \E j \in DOMAIN servers :
        /\ servers[j].status = "unhealthy"
        /\ servers[j].lastPing # ZeroTime
        /\ now - servers[j].lastPing > PersistentTimeout

ReadyStatuses == {"available", "connected"}

\* C15: invoke returns an error whenever the provider id is unknown, the
\* provider's status is not a ready state (it is pending, unhealthy or error
\* rather than available or connected), or the underlying call returns a
\* JSON-RPC error.
C15_InvokeFailsUnlessReady ==
    (op.kind = "CallTool" /\ inflight = NoCall) =>
        ((op.status \notin ReadyStatuses \/ op.reply = "rpc_error") => op.err # NoError)

\* an invoke on a stdio provider whose status is error has returned a result
C15_InvokedWhileInError ==
    /\ op.kind = "CallTool"
    /\ inflight = NoCall
    /\ op.id \in DOMAIN servers
    /\ op.status = "error"
    /\ servers[op.id].status = "error"
    /\ op.reply = "result"
    /\ op.err = NoError

RealStdio(server) == server.transport = "stdio" /\ ~IsMockURL(server.url)

\* the subprocesses invoke started that are running although their invoke
\* is over
Outliving == { i \in DOMAIN procs : /\ procs[i].role = "invoke"
                                    /\ procs[i].os = "running"
                                    /\ inflight.proc # i }

\* C16: for a real (non-mock) stdio provider every invoke launches a new
\* subprocess, and on every return path of invoke - success, tool error,
\* handshake failure or timeout - that subprocess has been stopped: no
\* subprocess started by invoke outlives the call.
C16_NoSubprocessOutlivesInvoke ==
    /\ Outliving = {}
    /\ (op.kind = "CallTool" /\ inflight = NoCall /\ op.status # ""
            /\ op.id \in DOMAIN servers /\ RealStdio(servers[op.id]))
         => \E i \in DOMAIN procs : procs[i].role = "invoke" /\ procs[i].server = op.id

\* invoke has returned "failed to start MCP process" and the subprocess it
\* launched is still running
C16_LeakedAfterFailedHandshake ==
    /\ op.kind = "CallTool"
    /\ inflight = NoCall
    /\ op.err = Err("failed to start MCP process: %w", "failed to initialize MCP connection: %w")
    /\ \E i \in Outliving : procs[i].server = op.id

\* the probes of a provider: the processes AddServer created for it
Probes(id) == { i \in DOMAIN procs : procs[i].role = "probe" /\ procs[i].server = id }

\* C17: after add of a stdio provider whose launch-spec is neither echo nor
\* mock, the discovery probe subprocess is not retained: the registry holds no
\* process for that provider and the probe has been stopped, whether discovery
\* succeeded or failed.
C17_ProbeNotRetained ==
    \A id \in DOMAIN servers :
        RealStdio(servers[id]) =>
            /\ id \notin DOMAIN processes
            /\ \A i \in Probes(id) : procs[i].os # "running"

\* a real stdio provider is available, its probe is the process the registry
\* holds for it, and the probe is still running
C17_ProbeRetained ==
    \E id \in DOMAIN servers :
        /\ RealStdio(servers[id])
        /\ servers[id].status = "available"
        /\ id \in DOMAIN processes
        /\ processes[id] \in Probes(id)
        /\ procs[processes[id]].os = "running"

Persistent(server) == server.transport \in {"sse", "http"}

ErrNotConnected(id) == Err("MCP server %s not connected", ToString(id))

\* C18: for an sse or http provider that has reached status connected, a
\* persistent connection object exists in the registry, and invoke on a
\* connected provider is carried out over that object: it does not fail as
\* "not connected".
C18_ConnectedHasConnection ==
    /\ \A id \in DOMAIN servers :
        (Persistent(servers[id]) /\ servers[id].status = "connected")
            => id \in DOMAIN processes
    /\ (op.kind = "CallTool" /\ op.status = "connected")
            => op.err # ErrNotConnected(op.id)

\* invoke on an sse or http provider in status connected has returned
\* "not connected", and the registry holds no connection object for it
C18_InvokeOnConnectedNotConnected ==
    /\ op.kind = "CallTool"
    /\ op.status = "connected"
    /\ op.err = ErrNotConnected(op.id)
    /\ op.id \in DOMAIN servers
    /\ Persistent(servers[op.id])
    /\ servers[op.id].status = "connected"
    /\ op.id \notin DOMAIN processes

\* C19: catalog_all contains the catalog of every provider whose status is
\* available or connected, and of no provider in any other status (pending,
\* unhealthy, error).
C19_CatalogAllIsTheReadyProviders ==
    \A all \in GetAllTools :
        /\ \A id \in DOMAIN servers :
            Ready(servers[id]) =>
                /\ servers[id].name \in DOMAIN all
                /\ all[servers[id].name] = servers[id].tools
        /\ \A n \in DOMAIN all :
            \E id \in DOMAIN servers :
                /\ Ready(servers[id])
                /\ servers[id].name = n
                /\ all[n] = servers[id].tools

\* two available stdio providers with one name and different catalogs: the
\* table prepared from catalog_all holds the tools of one of them only
C19_SameNameProviderLeftOut ==
    \E i, j \in DOMAIN servers :
        /\ i # j
        /\ servers[i].name = servers[j].name
        /\ servers[i].status = "available"
        /\ servers[j].status = "available"
        /\ servers[i].tools # servers[j].tools
        /\ mcpTools # {}
        /\ \A t \in mcpTools : t.serverName = servers[i].name /\ t.toolName \in servers[i].tools

\* the characters of ^[a-zA-Z0-9_-]+$
FunctionNameChars ==
    { "a", "b", "c", "d", "e", "f", "g", "h", "i", "j", "k", "l", "m",
      "n", "o", "p", "q", "r", "s", "t", "u", "v", "w", "x", "y", "z",
      "A", "B", "C", "D", "E", "F", "G", "H", "I", "J", "K", "L", "M",
      "N", "O", "P", "Q", "R", "S", "T", "U", "V", "W", "X", "Y", "Z",
      "0", "1", "2", "3", "4", "5", "6", "7", "8", "9", "_", "-" }

\* C20: for every provider name and tool name the registry accepts, the name
\* exposed to the LLM, <sanitized-provider>_<tool-name>, is non-empty and
\* consists only of characters in [A-Za-z0-9_-].
C20_ExposedNamesAreFunctionNames ==
    \A t \in mcpTools :
        /\ t.name = ExposedName(t.serverName, t.toolName)
        /\ Len(t.name) > 0
        /\ \A i \in DOMAIN t.name : t.name[i] \in FunctionNameChars

\* the tool ls of the provider named db.v2 is exposed as db.v2_ls
C20_DotInExposedName ==
    \E t \in mcpTools :
        /\ t.serverName = <<"d", "b", ".", "v", "2">>
        /\ t.toolName = <<"l", "s">>
        /\ t.name = <<"d", "b", ".", "v", "2", "_", "l", "s">>

-----------------------------------------------------------------------------
(* C28 *)

ToolNotFoundTurn(m, name) ==
    /\ m.role = RoleUser
    /\ m.content.form = "ERROR: Tool '%s' not found. Available tools: %s."
    /\ m.content.value = Value("string", name)

\* C28: in the local client's textual tool dialect the invoke-callback is
\* called only with a tool name that is in the offered set; a reply naming a
\* tool outside the set makes the client append an error turn listing the
\* valid names and go on with another backend request, unless the iteration
\* cap is reached.
C28_TextualCallsOnlyOfferedTools ==
    [][DispatchTextToolCall =>
        IF textCall.toolName \in ToolNames(tools)
        THEN /\ Len(trace') > Len(trace)
             /\ trace'[Len(trace) + 1].ev = "callback"
             /\ trace'[Len(trace) + 1].name = textCall.toolName
        ELSE /\ trace' = trace
             /\ Len(messages') = Len(messages) + 1
             /\ ToolNotFoundTurn(messages'[Len(messages')], textCall.toolName)
             /\ iteration' = iteration + 1
             /\ IF iteration + 1 < LocalMaxToolIterations
                THEN pc' = "request" /\ result' = Running
                ELSE /\ pc' = "done"
                     /\ result' = ReturnError(ErrMaxIterationsExceeded(LocalMaxToolIterations))]_vars

\* the Ollama path answered a reply naming bogus_tool with the error turn,
\* sent another request, and the callback was never called for bogus_tool
C28_UnknownTextualToolRefused ==
    /\ loop = "LOCAL"
    /\ dialect = "ollama"
    /\ \E i \in DOMAIN messages :
        /\ ToolNotFoundTurn(messages[i], "bogus_tool")
        /\ i < Len(messages)
        /\ messages[i + 1].role = RoleAssistant
    /\ \A j \in DOMAIN trace : trace[j].name # "bogus_tool"
    /\ Requests >= 2

-----------------------------------------------------------------------------
(* C29 *)

\* C29: at the first backend request of every tool loop, the message sequence
\* consists of a system turn followed by the user turn.
C29_FirstRequestHasSystemThenUser ==
    (loop # "none" /\ Requests = 0 /\ pc = "request") =>
        /\ Len(messages) = 2
        /\ messages[1].role = RoleSystem
        /\ messages[2].role = RoleUser

\* OpenAIClient.ProcessWithTools has sent its first request and the first
\* message of its sequence is the user turn
C29_FirstRequestWithoutSystemTurn ==
    /\ loop = "PWT"
    /\ Requests = 1
    /\ messages[1].role = RoleUser
    /\ \A i \in DOMAIN messages : messages[i].role # RoleSystem

-----------------------------------------------------------------------------
(* C27 *)

\* C27: when the offered tool list is empty, a tool-capable request does not
\* enter the client's tool loop: one request is sent, the result is what
\* process_message returns for the message (the content of the reply, or the
\* error of the request), and the invoke-callback is never called.
C27_NoToolsNoToolLoop ==
    (loop # "none" /\ Len(tools) = 0) =>
        /\ Requests <= 1
        /\ \A i \in DOMAIN trace : trace[i].ev # "callback"
        /\ Requests = 1 =>
            /\ Finished
            /\ \/ result = ReturnError(Err("API request failed", ""))
               \/ result = ReturnText(messages[Len(messages)].content)

\* OpenAIClient.ProcessWithTools was called with no tools and has sent a
\* second request, after a reply that carried tool calls
C27_ToolLoopWithoutTools ==
    /\ loop = "PWT"
    /\ Len(tools) = 0
    /\ caller = "nil"
    /\ Requests >= 2
    /\ \E i \in DOMAIN messages : Len(messages[i].tool_calls) > 0

-----------------------------------------------------------------------------
(* The LLM provider manager: llm.Manager over llm_providers.json *)

MaxProviders == 2

ProviderIds == 1..MaxProviders

\* everything but the provider manager
OutsideProviders == <<LoopVars, RegistryVars, session, StreamVars, runs, factory, chat, rpc, locks>>

\* what AddProvider is handed: the CLI's `llm add [name] [type] [model]` with
\* its --api-key and --endpoint flags, and the IsActive field of the struct;
\* the model is llama3 and Config is nil
LLMProvider(name, type, apiKey, endpoint, isActive) ==
    [name |-> name, type |-> type, apiKey |-> apiKey, endpoint |-> endpoint,
     model |-> "llama3", config |-> "nil", isActive |-> isActive]

\* endpoints are sequences of URL pieces, the empty sequence being ""
NoEndpoint == <<>>
OllamaEndpoint == <<"http://localhost", ":11434">>
SlashEndpoint == <<"http://gpu:8000/v1", "/">>

Endpoints == {NoEndpoint, OllamaEndpoint, SlashEndpoint}

\* the providers AddProvider accepts, with either value of IsActive, and one
\* provider for each way validateProvider rejects
ProviderInputs ==
    { LLMProvider("work", "openai", "sk-1", NoEndpoint, a) : a \in BOOLEAN }
    \cup { LLMProvider("home", "local", "", e, a) :
                e \in {OllamaEndpoint, SlashEndpoint}, a \in BOOLEAN }
    \cup { LLMProvider("", "openai", "sk-1", NoEndpoint, FALSE),
           LLMProvider("work", "", "sk-1", NoEndpoint, FALSE),
           LLMProvider("work", "azure", "sk-1", NoEndpoint, FALSE),
           LLMProvider("work", "openai", "", NoEndpoint, FALSE),
           LLMProvider("home", "local", "", NoEndpoint, FALSE) }

\* those `llm add` builds: it has no flag for IsActive
CLIProviders == { p \in ProviderInputs : ~p.isActive }

Contains(endpoint, piece) == \E i \in DOMAIN endpoint : endpoint[i] = piece

HasSuffix(endpoint, piece) == endpoint # <<>> /\ endpoint[Len(endpoint)] = piece

TrimSuffix(endpoint, piece) ==
    IF HasSuffix(endpoint, piece) THEN SubSeq(endpoint, 1, Len(endpoint) - 1)
    ELSE endpoint

normalizeLocalEndpoint(endpoint) ==
    LET trimmed == TrimSuffix(endpoint, "/")
    IN  IF Contains(trimmed, ":11434")
        THEN IF ~HasSuffix(trimmed, "/api/chat")
             THEN Append(trimmed, "/api/chat") ELSE trimmed
        ELSE IF Contains(trimmed, "ollama") /\ ~Contains(trimmed, "/api/chat")
        THEN Append(trimmed, "/api/chat")
        ELSE trimmed

\* the error of validateProvider
validateProvider(provider) ==
    IF provider.name = "" THEN Err("provider name is required", "")
    ELSE IF provider.type = "" THEN Err("provider type is required", "")
    ELSE IF provider.type \notin {"openai", "anthropic", "google", "local"}
        THEN Err("unsupported provider type: %s", provider.type)
    ELSE IF provider.type # "local" /\ provider.apiKey = ""
        THEN Err("API key is required for provider type %s", provider.type)
    ELSE IF provider.type = "local" /\ provider.endpoint = NoEndpoint
        THEN Err("endpoint is required for local provider", "")
    ELSE NoError

\* the provider as validateProvider leaves it
Validated(provider) ==
    IF validateProvider(provider) = NoError /\ provider.type = "local"
    THEN [provider EXCEPT !.endpoint = normalizeLocalEndpoint(provider.endpoint)]
    ELSE provider

\* a failed write is logged and the operation goes on
SaveLLMProviders(ps, saves) ==
    \E saved \in saves : providerFile' = IF saved THEN ps ELSE providerFile

\* a new process: the map is what LoadLLMProviders reads, or stays empty when
\* the file cannot be read
LLMNewManager ==
    /\ llmLock = 0
    /\ \/ providers' = providerFile
       \/ providers' = <<>>
    /\ listing' = {}
    /\ UNCHANGED <<providerFile, llmLock>>
    /\ UNCHANGED OutsideProviders

AddProvider(inputs, saves) ==
    /\ llmLock = 0
    /\ \E provider \in inputs, given \in {0} \cup ProviderIds :
        \E id \in ProviderIds :
            /\ IF given = 0 THEN id \notin DOMAIN providers ELSE id = given
            /\ IF validateProvider(provider) # NoError
               THEN UNCHANGED <<providers, providerFile, listing>>
               ELSE /\ providers' = [i \in DOMAIN providers \cup {id} |->
                                        IF i = id THEN Validated(provider)
                                        ELSE providers[i]]
                    /\ listing' = listing \ {id}
                    /\ SaveLLMProviders(providers', saves)
    /\ UNCHANGED llmLock
    /\ UNCHANGED OutsideProviders

RemoveProvider(saves) ==
    /\ llmLock = 0
    /\ \E id \in ProviderIds :
        IF id \notin DOMAIN providers
        THEN UNCHANGED <<providers, providerFile, listing>>
        ELSE /\ providers' = [i \in DOMAIN providers \ {id} |-> providers[i]]
             /\ listing' = listing \ {id}
             /\ SaveLLMProviders(providers', saves)
    /\ UNCHANGED llmLock
    /\ UNCHANGED OutsideProviders

\* SetActiveProvider up to the end of its clearing loop, the lock held
SetActiveProvider ==
    /\ llmLock = 0
    /\ \E id \in ProviderIds :
        IF id \notin DOMAIN providers
        THEN UNCHANGED <<providers, llmLock>>
        ELSE /\ providers' = [i \in DOMAIN providers |->
                                 [providers[i] EXCEPT !.isActive = FALSE]]
             /\ llmLock' = id
    /\ UNCHANGED <<providerFile, listing>>
    /\ UNCHANGED OutsideProviders

\* the rest of SetActiveProvider: set the flag, save, release the lock
SetActiveProviderReturn(saves) ==
    /\ llmLock # 0
    /\ providers' = [providers EXCEPT ![llmLock].isActive = TRUE]
    /\ SaveLLMProviders(providers', saves)
    /\ llmLock' = 0
    /\ UNCHANGED listing
    /\ UNCHANGED OutsideProviders

\* a key of updates that is missing, or whose value has another type than
\* the type assertion asks for
NotGiven == "not given"
NoEndpointGiven == <<NotGiven>>

Updates(name, endpoint, model, config) ==
    [name |-> name, endpoint |-> endpoint, model |-> model, config |-> config]

\* the maps UpdateProvider is handed: no key, a name, an endpoint, model and
\* config, name and endpoint
UpdateInputs ==
    { Updates(n, NoEndpointGiven, NotGiven, NotGiven) : n \in {NotGiven, "", "office"} }
    \cup { Updates(NotGiven, e, NotGiven, NotGiven) : e \in Endpoints }
    \cup { Updates(NotGiven, NoEndpointGiven, "gpt-4o", "{temperature}"),
           Updates("office", SlashEndpoint, NotGiven, NotGiven) }

\* those of them that leave name, model and config alone
EndpointUpdates == { u \in UpdateInputs : u = Updates(NotGiven, u.endpoint, NotGiven, NotGiven) }

\* the provider after the four type assertions of UpdateProvider
Updated(provider, updates) ==
    [provider EXCEPT
        !.name = IF updates.name # NotGiven THEN updates.name ELSE @,
        !.endpoint = IF updates.endpoint # NoEndpointGiven THEN updates.endpoint ELSE @,
        !.model = IF updates.model # NotGiven THEN updates.model ELSE @,
        !.config = IF updates.config # NotGiven THEN updates.config ELSE @]

\* the updated fields stay in the map when the validation fails
UpdateProvider(inputs, saves) ==
    /\ llmLock = 0
    /\ \E id \in ProviderIds, updates \in inputs :
        IF id \notin DOMAIN providers
        THEN UNCHANGED <<providers, providerFile>>
        ELSE /\ providers' = [providers EXCEPT ![id] = Validated(Updated(@, updates))]
             /\ IF validateProvider(Updated(providers[id], updates)) # NoError
                THEN UNCHANGED providerFile
                ELSE SaveLLMProviders(providers', saves)
    /\ UNCHANGED <<llmLock, listing>>
    /\ UNCHANGED OutsideProviders

ActiveProviders == { i \in DOMAIN providers : providers[i].isActive }

\* a fresh data directory and nothing else running
ProviderInit == IdleInit

ProviderNext ==
    \/ LLMNewManager
    \/ AddProvider(ProviderInputs, SavedOrNot)
    \/ RemoveProvider(SavedOrNot)
    \/ SetActiveProvider
    \/ SetActiveProviderReturn(SavedOrNot)
    \/ UpdateProvider(EndpointUpdates, SavedOrNot)

ProviderSpec == ProviderInit /\ [][ProviderNext]_vars

(* C21 *)

\* C21: in every state of the provider manager, after any sequence of add,
\* remove, update and set-active and after loading the persisted providers,
\* at most one provider is active, also while SetActiveProvider holds the lock
C21_AtMostOneActive == Cardinality(ActiveProviders) <= 1

\* two providers were added with IsActive set and both are in the map
C21_TwoActiveProviders ==
    /\ llmLock = 0
    /\ Cardinality(ActiveProviders) = 2
    /\ providerFile = providers

-----------------------------------------------------------------------------
(* Streaming: OpenAIClient.ProcessMessageStream over ProcessSSEStream, and
   LocalClient.ProcessMessageStream over Ollama's line-delimited stream *)

StreamDataPrefix == "data: "
StreamDoneMarker == "[DONE]"

MaxLines == 3

\* everything but the stream
OutsideStream == <<LoopVars, RegistryVars, session, ProviderVars, runs, factory, chat, rpc, locks>>

\* a line of the response body, without its "\n": a prefix, the data after it
\* and whether a "\r" ends it. The data is empty, the marker, a JSON object of
\* the client's stream response type with its content and done fields, or text
\* that is not JSON.
Data(kind, content, done) == [kind |-> kind, content |-> content, done |-> done]
Json(content, done) == Data("json", content, done)
Line(prefix, data, cr) == [prefix |-> prefix, data |-> data, cr |-> cr]

SSELines ==
    { Line("", Data("empty", "", FALSE), cr) : cr \in BOOLEAN }
    \cup { Line(StreamDataPrefix, Data("text", StreamDoneMarker, FALSE), TRUE),
           Line(StreamDataPrefix, Json("Hel", FALSE), FALSE),
           Line(StreamDataPrefix, Json("", FALSE), FALSE),
           Line(StreamDataPrefix, Data("text", "{oops", FALSE), FALSE),
           Line("event: ", Data("text", "ping", FALSE), FALSE) }

OllamaLines ==
    { Line("", Data("empty", "", FALSE), FALSE),
      Line("", Json("Hel", FALSE), FALSE),
      Line("", Json("lo", FALSE), TRUE),
      Line("", Json("", TRUE), FALSE),
      Line("", Json("lo", TRUE), FALSE),
      Line("", Data("text", "{oops", FALSE), FALSE) }

Bodies(lines) == UNION { [1..n -> lines] : n \in 0..MaxLines }

\* what the backend does with the request: the outcome of the POST, the
\* lines of the body, whether the last of them lacks its "\n", and how the
\* body ends
Backend(client, post, body, tail, end) ==
    [client |-> client, post |-> post, body |-> body, tail |-> tail, end |-> end]

StreamInputs ==
    { Backend(c, "ok", b, t, e) :
        c \in {"openai"}, b \in Bodies(SSELines), t \in BOOLEAN,
        e \in {"eof", "read_error"} }
    \cup { Backend(c, "ok", b, t, e) :
        c \in {"ollama"}, b \in Bodies(OllamaLines), t \in BOOLEAN,
        e \in {"eof", "read_error"} }
    \cup { Backend(c, p, <<>>, FALSE, "eof") :
        c \in {"openai", "ollama"}, p \in {"transport_error", "status_500", "status_204"} }

StreamChunk(content, err, done) == [content |-> content, err |-> err, done |-> done]

EOF == Err("EOF", "")
ErrUnexpectedEOF == Err("unexpected EOF", "")
ErrSyntax == Err("invalid character", "")

\* ch <- chunk with a consumer that receives; a send on a closed channel panics
Send(ch, chunk) ==
    IF ch.panic # "" THEN ch
    ELSE IF ch.closes > 0 THEN [ch EXCEPT !.panic = "send on closed channel"]
    ELSE [ch EXCEPT !.chunks = Append(@, chunk)]

\* close(ch); closing a closed channel panics
Close(ch) ==
    IF ch.panic # "" THEN ch
    ELSE IF ch.closes > 0 THEN [ch EXCEPT !.panic = "close of closed channel"]
    ELSE [ch EXCEPT !.closes = 1]

\* reader.ReadString('\n'): the n-th line, or the error at the end of the body;
\* bytes that no "\n" follows come back together with the error
ReadString(st, n) ==
    LET whole == IF st.tail /\ st.body # <<>> THEN Len(st.body) - 1 ELSE Len(st.body)
    IN  IF n <= whole THEN [line |-> st.body[n], err |-> NoError]
        ELSE [line |-> Line("", Data("empty", "", FALSE), FALSE),
              err |-> IF st.end = "eof" THEN EOF ELSE ErrUnexpectedEOF]

TrimSpace(line) == [line EXCEPT !.cr = FALSE]

IsEmptyLine(line) == line.prefix = "" /\ line.data.kind = "empty" /\ ~line.cr

\* OpenAISSEParser.ParseLine: chunk, done, err
ParseLine(line) ==
    IF line.prefix = StreamDataPrefix
    THEN IF line.data.kind = "text" /\ line.data.content = StreamDoneMarker /\ ~line.cr
         THEN [chunk |-> StreamChunk("", NoError, FALSE), done |-> TRUE, err |-> NoError]
         ELSE IF line.data.kind # "json"
         THEN [chunk |-> StreamChunk("", Err("failed to parse response: %v", ErrSyntax.fmt), FALSE),
               done |-> FALSE, err |-> ErrSyntax]
         ELSE [chunk |-> StreamChunk(line.data.content, NoError, FALSE),
               done |-> FALSE, err |-> NoError]
    ELSE [chunk |-> StreamChunk("", NoError, FALSE), done |-> FALSE, err |-> NoError]

\* a decoding that loses the done field
UnmarshalOllama_DoneLost(line) ==
    IF line.prefix = "" /\ line.data.kind = "json"
    THEN [content |-> line.data.content, done |-> FALSE, err |-> NoError]
    ELSE [content |-> "", done |-> FALSE, err |-> ErrSyntax]

\* json.Unmarshal([]byte(line), &resp) into an OllamaResponse
UnmarshalOllama(line) ==
    IF line.prefix = "" /\ line.data.kind = "json"
    THEN [content |-> line.data.content, done |-> line.data.done, err |-> NoError]
    ELSE [content |-> "", done |-> FALSE, err |-> ErrSyntax]

\* the call: the credential check, then the channel and the goroutine
ProcessMessageStream ==
    /\ producer.pc = "idle"
    /\ \E st \in StreamInputs, credential \in BOOLEAN :
        /\ stream' = st
        /\ producer' = [producer EXCEPT !.pc = IF credential THEN "post" ELSE "rejected"]
    /\ UNCHANGED channel
    /\ UNCHANGED OutsideStream

\* the status of the response, 200 when the backend streams
StatusCode(post) ==
    CASE post = "status_500" -> 500
      [] post = "status_204" -> 204
      [] OTHER -> 200

\* CheckStatusCode for the OpenAI client, the comparison with StatusOK for
\* the Ollama client
StatusRefused(client, code) == IF client = "openai" THEN code >= 400 ELSE code # 200

\* the request of either goroutine: PostJSON for the OpenAI client,
\* httpClient.Do for the Ollama client
StreamPost ==
    /\ producer.pc = "post"
    /\ IF stream.post = "transport_error"
       THEN /\ channel' = Send(channel, StreamChunk("",
                                Err(IF stream.client = "openai" THEN "HTTP request failed: %v"
                                    ELSE "failed to send request: %v", ""), FALSE))
            /\ producer' = [producer EXCEPT !.pc = "return"]
       ELSE IF StatusRefused(stream.client, StatusCode(stream.post))
       THEN /\ channel' = Send(channel, StreamChunk("",
                                Err("API request failed with status %d: %s",
                                    ToString(StatusCode(stream.post))), FALSE))
            /\ producer' = [producer EXCEPT !.pc = "return"]
       ELSE /\ channel' = channel
            /\ producer' = [producer EXCEPT !.pc = IF stream.client = "openai" THEN "sse" ELSE "lines"]
    /\ UNCHANGED stream
    /\ UNCHANGED OutsideStream

\* one turn of the loop of ProcessSSEStream; when the loop is left, the
\* deferred close(ch) runs and the error goes to the caller
ProcessSSEStream ==
    /\ producer.pc = "sse"
    /\ LET r == ReadString(stream, producer.next)
           line == TrimSpace(r.line)
           p == ParseLine(line)
           sent == IF p.chunk.content # "" \/ p.chunk.err # NoError
                   THEN Send(channel, p.chunk) ELSE channel
       IN  IF r.err # NoError
           THEN IF r.err = EOF
                THEN /\ channel' = Close(channel)
                     /\ producer' = [producer EXCEPT !.pc = "sse_returned", !.err = NoError]
                ELSE /\ channel' = Close(Send(channel, StreamChunk("", r.err, FALSE)))
                     /\ producer' = [producer EXCEPT !.pc = "sse_returned", !.err = r.err]
           ELSE IF IsEmptyLine(line)
           THEN /\ channel' = channel
                /\ producer' = [producer EXCEPT !.next = @ + 1]
           ELSE IF p.err # NoError
           THEN /\ channel' = Close(Send(channel, StreamChunk("", p.err, FALSE)))
                /\ producer' = [producer EXCEPT !.pc = "sse_returned", !.err = p.err]
           ELSE IF p.done
           THEN /\ channel' = Close(Send(sent, StreamChunk("", NoError, TRUE)))
                /\ producer' = [producer EXCEPT !.pc = "sse_returned", !.err = NoError]
           ELSE /\ channel' = sent
                /\ producer' = [producer EXCEPT !.next = @ + 1]
    /\ UNCHANGED stream
    /\ UNCHANGED OutsideStream

\* one turn of the reading loop of LocalClient.ProcessMessageStream
OllamaReadLine ==
    /\ producer.pc = "lines"
    /\ LET r == ReadString(stream, producer.next)
           line == TrimSpace(r.line)
           resp == UnmarshalOllama(line)
           sent == IF resp.content # ""
                   THEN Send(channel, StreamChunk(resp.content, NoError, FALSE))
                   ELSE channel
       IN  IF r.err # NoError
           THEN /\ channel' = IF r.err # EOF
                              THEN Send(channel, StreamChunk("", Err("error reading stream: %v", r.err.fmt), FALSE))
                              ELSE channel
                /\ producer' = [producer EXCEPT !.pc = "return"]
           ELSE IF IsEmptyLine(line) \/ resp.err # NoError
           THEN /\ channel' = channel
                /\ producer' = [producer EXCEPT !.next = @ + 1]
           ELSE IF resp.done
           THEN /\ channel' = Send(sent, StreamChunk("", NoError, TRUE))
                /\ producer' = [producer EXCEPT !.pc = "return"]
           ELSE /\ channel' = sent
                /\ producer' = [producer EXCEPT !.next = @ + 1]
    /\ UNCHANGED stream
    /\ UNCHANGED OutsideStream

\* the end of the goroutine: OpenAIClient sends the error ProcessSSEStream
\* returned, and the closure's deferred close(ch) runs
StreamReturn ==
    /\ producer.pc \in {"return", "sse_returned"}
    /\ channel' = IF producer.pc = "sse_returned" /\ producer.err # NoError
                  THEN Close(Send(channel, StreamChunk("", producer.err, FALSE)))
                  ELSE Close(channel)
    /\ producer' = [producer EXCEPT !.pc = IF channel'.panic # "" THEN "panicked" ELSE "done"]
    /\ UNCHANGED stream
    /\ UNCHANGED OutsideStream

\* nothing was asked of any part of the program yet
StreamInit == IdleInit

StreamNext ==
    \/ ProcessMessageStream
    \/ StreamPost
    \/ ProcessSSEStream
    \/ OllamaReadLine
    \/ StreamReturn

StreamSpec == StreamInit /\ [][StreamNext]_vars

\* the goroutine of the stream has ended, by returning or by a panic
ProducerEnded == producer.pc \in {"done", "panicked"}

\* the lines of the body that end with "\n"
WholeLines(st) ==
    IF st.tail /\ st.body # <<>> THEN SubSeq(st.body, 1, Len(st.body) - 1) ELSE st.body

(* C22 *)

\* C22: every stream channel is closed exactly once by its producer and
\* nothing is sent on it after it is closed, on every exit path: no send and
\* no close ever hits a closed channel, and when the producer has ended the
\* channel has been closed
C22_ClosedExactlyOnce ==
    /\ channel.panic = ""
    /\ channel.closes <= 1
    /\ ProducerEnded => channel.closes = 1

\* the OpenAI stream ended with the marker: ProcessSSEStream delivered the
\* terminal chunk and closed the channel, and the deferred close of the
\* goroutine hit the closed channel
C22_ClosedTwiceAfterMarker ==
    /\ stream.client = "openai"
    /\ producer.pc = "panicked"
    /\ channel.panic = "close of closed channel"
    /\ channel.chunks # <<>>
    /\ channel.chunks[Len(channel.chunks)] = StreamChunk("", NoError, TRUE)

(* C23 *)

RECURSIVE SSEOutput(_)
\* what the consumer of an SSE stream is to receive for the lines: nothing for
\* an empty line or for one without content, the content of a data line, the
\* terminal chunk and nothing more at the marker, the decode error and nothing
\* more at a data line that does not decode
SSEOutput(lines) ==
    IF lines = <<>> THEN <<>>
    ELSE LET line == Head(lines)
         IN  IF line.prefix # StreamDataPrefix THEN SSEOutput(Tail(lines))
             ELSE IF line.data.kind = "text" /\ line.data.content = StreamDoneMarker
             THEN <<StreamChunk("", NoError, TRUE)>>
             ELSE IF line.data.kind # "json"
             THEN <<StreamChunk("", ErrSyntax, FALSE)>>
             ELSE IF line.data.content = "" THEN SSEOutput(Tail(lines))
             ELSE <<StreamChunk(line.data.content, NoError, FALSE)>> \o SSEOutput(Tail(lines))

\* C23: when a data line of an SSE stream fails to decode, the consumer
\* receives an error chunk with the decode error and then finds the channel
\* closed; a [DONE] line ends the stream with a terminal chunk; empty lines
\* give no chunk. When the producer has ended, the consumer has received
\* exactly these chunks from a channel that was closed once and without a panic.
C23_SSEChunksThenClosed ==
    (/\ stream.client = "openai"
     /\ stream.post = "ok"
     /\ stream.end = "eof"
     /\ ProducerEnded) =>
        /\ channel.chunks = SSEOutput(WholeLines(stream))
        /\ channel.closes = 1
        /\ channel.panic = ""

\* a data line did not decode: the consumer received the decode error from
\* ProcessSSEStream, which closed the channel, and the goroutine then sent the
\* error once more on the closed channel
C23_DecodeErrorThenPanic ==
    /\ stream.client = "openai"
    /\ producer.pc = "panicked"
    /\ channel.chunks # <<>>
    /\ channel.chunks[Len(channel.chunks)] = StreamChunk("", ErrSyntax, FALSE)
    /\ channel.closes = 1
    /\ channel.panic = "send on closed channel"
    /\ \E i \in DOMAIN stream.body : IsEmptyLine(TrimSpace(stream.body[i]))

(* C24 *)

RECURSIVE OllamaOutput(_)
\* what the consumer of an Ollama stream is to receive for the lines: the
\* content of each line in order, and at a line with done the terminal chunk
\* and nothing more; lines that are empty or not JSON give nothing
OllamaOutput(lines) ==
    IF lines = <<>> THEN <<>>
    ELSE LET line == Head(lines)
             content == IF line.data.content = "" THEN <<>>
                        ELSE <<StreamChunk(line.data.content, NoError, FALSE)>>
         IN  IF line.data.kind # "json" \/ line.prefix # "" THEN OllamaOutput(Tail(lines))
             ELSE IF line.data.done THEN content \o <<StreamChunk("", NoError, TRUE)>>
             ELSE content \o OllamaOutput(Tail(lines))

\* the whole output of the stream: after the chunks of the lines, the read
\* error when the body breaks off before any line with done
OllamaDelivery(st) ==
    LET out == OllamaOutput(WholeLines(st))
    IN  IF st.end = "read_error" /\ (out = <<>> \/ ~out[Len(out)].done)
        THEN Append(out, StreamChunk("", Err("error reading stream: %v", ErrUnexpectedEOF.fmt), FALSE))
        ELSE out

\* C24: for an Ollama line-delimited stream the channel delivers the content
\* of each line in arrival order, one terminal chunk when a line with
\* done:true is read and nothing after it, and is then closed; the lines
\* "Hel", "lo", done:true give exactly chunk("Hel"), chunk("lo"), terminal
C24_OllamaChunksInOrder ==
    (stream.client = "ollama" /\ stream.post = "ok") =>
        /\ Len(channel.chunks) <= Len(OllamaDelivery(stream))
        /\ channel.chunks = SubSeq(OllamaDelivery(stream), 1, Len(channel.chunks))
        /\ \A i \in 1..(Len(channel.chunks) - 1) : ~channel.chunks[i].done
        /\ channel.panic = ""
        /\ channel.closes = IF producer.pc = "done" THEN 1 ELSE 0
        /\ producer.pc \in {"return", "done"} =>
                channel.chunks = OllamaDelivery(stream)
        /\ (channel.chunks # <<>> /\ channel.chunks[Len(channel.chunks)].done) =>
                producer.pc \in {"return", "done"}

\* the stream of the three lines has been delivered and closed
C24_HelLoTerminal ==
    /\ stream.client = "ollama"
    /\ producer.pc = "done"
    /\ Len(stream.body) = 3
    /\ ~stream.tail
    /\ stream.body[1].data = Json("Hel", FALSE)
    /\ stream.body[2].data = Json("lo", FALSE)
    /\ stream.body[3].data = Json("", TRUE)
    /\ channel.chunks = <<StreamChunk("Hel", NoError, FALSE),
                          StreamChunk("lo", NoError, FALSE),
                          StreamChunk("", NoError, TRUE)>>
    /\ channel.closes = 1

-----------------------------------------------------------------------------
(* Conversation runs: Agent.ProcessConversation and the goroutine of
   Agent.ProcessConversationWithStreaming on one ConversationSession *)

Runs == 1..MaxRuns

\* everything but the session and its runs
OutsideRuns == <<LoopVars, RegistryVars, ProviderVars, StreamVars, factory, chat, rpc, locks>>

Active(r) == runs[r].pc \notin {"idle", "done", "failed"}

\* the run is called with a message; `before` and `alone` only observe: the
\* session as the run found it, and whether another run was under way
ProcessConversation(r) ==
    /\ runs[r].pc = "idle"
    /\ Len(session) + 2 * Cardinality({q \in Runs : Active(q)}) + 2 <= MaxSessionLen
    /\ \E message \in SessionTexts :
        runs' = [q \in Runs |->
            IF q = r
            THEN [runs[q] EXCEPT !.pc = "load_user", !.message = message,
                                 !.before = session,
                                 !.alone = \A o \in Runs : ~Active(o)]
            ELSE IF Active(q) THEN [runs[q] EXCEPT !.alone = FALSE]
            ELSE runs[q]]
    /\ UNCHANGED session
    /\ UNCHANGED OutsideRuns

\* AddMessage reads cs.Messages for its append; nothing orders this read and
\* the write below with those of another goroutine
AddMessageLoad(r) ==
    /\ runs[r].pc \in {"load_user", "load_assistant"}
    /\ runs' = [runs EXCEPT ![r].loaded = session,
                            ![r].pc = IF @ = "load_user" THEN "store_user"
                                      ELSE "store_assistant"]
    /\ UNCHANGED session
    /\ UNCHANGED OutsideRuns

\* an AddMessage that replaces the messages by the new one
AddMessageStore_Replaces(r) ==
    /\ runs[r].pc \in {"store_user", "store_assistant"}
    /\ session' = IF runs[r].pc = "store_user"
                  THEN <<Msg(RoleUser, Text(runs[r].message), <<>>, "", "")>>
                  ELSE <<Msg(RoleAssistant, Text(runs[r].result), <<>>, "", "")>>
    /\ runs' = [runs EXCEPT ![r].pc = IF @ = "store_user" THEN "process" ELSE "done"]
    /\ UNCHANGED OutsideRuns

\* AddMessage writes cs.Messages = append(what it read, the message)
AddMessageStore(r) ==
    /\ runs[r].pc \in {"store_user", "store_assistant"}
    /\ session' = IF runs[r].pc = "store_user"
                  THEN Append(runs[r].loaded, Msg(RoleUser, Text(runs[r].message), <<>>, "", ""))
                  ELSE Append(runs[r].loaded, Msg(RoleAssistant, Text(runs[r].result), <<>>, "", ""))
    /\ runs' = [runs EXCEPT ![r].pc = IF @ = "store_user" THEN "process" ELSE "done"]
    /\ UNCHANGED OutsideRuns

\* between the two appends: the provider, the processor, and the answer of
\* ProcessConversationWithUI; any error ends the run
ProcessConversationWithUI(r) ==
    /\ runs[r].pc = "process"
    /\ \/ \E answer \in SessionTexts :
            runs' = [runs EXCEPT ![r].pc = "load_assistant", ![r].result = answer]
       \/ runs' = [runs EXCEPT ![r].pc = "failed"]
    /\ UNCHANGED session
    /\ UNCHANGED OutsideRuns

ConversationInit == IdleInit

ConversationNext ==
    \E r \in Runs :
        \/ ProcessConversation(r)
        \/ AddMessageLoad(r)
        \/ AddMessageStore(r)
        \/ ProcessConversationWithUI(r)

ConversationSpec == ConversationInit /\ [][ConversationNext]_vars

(* C25 *)

UserTurnOf(r) == Msg(RoleUser, Text(runs[r].message), <<>>, "", "")
AssistantTurnOf(r) == Msg(RoleAssistant, Text(runs[r].result), <<>>, "", "")

\* what run r has appended so far, after the session as it found it
ExtendedBy(r) ==
    runs[r].before
    \o (IF runs[r].pc \in {"idle", "load_user", "store_user"} THEN <<>> ELSE <<UserTurnOf(r)>>)
    \o (IF runs[r].pc = "done" THEN <<AssistantTurnOf(r)>> ELSE <<>>)

IsPrefix(s, t) == Len(s) <= Len(t) /\ s = SubSeq(t, 1, Len(s))

\* no other run was called after run r
LastRun(r) ==
    \A q \in Runs \ {r} : runs[q].pc = "idle" \/ Len(runs[q].before) < Len(runs[r].before)

\* C25: a successful conversation run extends the session by exactly the user
\* message followed by the assistant's final answer, every earlier message
\* unchanged and in place, and the sequence never shrinks or is reordered:
\* for a run that no other run overlaps, the session is what the run found
\* followed by what it has appended so far, until a later run appends after it
C25_RunAppendsUserThenAssistant ==
    \A r \in Runs :
        (runs[r].pc # "idle" /\ runs[r].alone) =>
            /\ IsPrefix(ExtendedBy(r), session)
            /\ LastRun(r) => session = ExtendedBy(r)

\* a second run has succeeded on a session that held the two messages of the
\* first: the session gained user("hello") and assistant("hi") after them
C25_SessionGainedPair ==
    \E r \in Runs :
        /\ runs[r].pc = "done"
        /\ runs[r].alone
        /\ Len(runs[r].before) = 2
        /\ session = runs[r].before \o
              <<Msg(RoleUser, Text("hello"), <<>>, "", ""),
                Msg(RoleAssistant, Text("hi"), <<>>, "", "")>>

(* C26 *)

\* the AddMessage calls run r has completed
Appends(r) ==
    IF runs[r].pc \in {"idle", "load_user", "store_user"} THEN 0
    ELSE IF runs[r].pc = "done" THEN 2 ELSE 1

RECURSIVE AppendsUpTo(_)
AppendsUpTo(r) == IF r = 0 THEN 0 ELSE Appends(r) + AppendsUpTo(r - 1)

\* C26: appends to one session are serialized: when two conversation runs
\* work on the same session concurrently, every message appended is in the
\* session afterwards, in one order, and none is lost: the session holds as
\* many messages as AddMessage calls have completed, and the messages of each
\* run that has ended are in it, the user message before the answer
C26_NoAppendLost ==
    /\ Len(session) = AppendsUpTo(MaxRuns)
    /\ \A r \in Runs : runs[r].pc \in {"done", "failed"} =>
            \E i \in DOMAIN session :
                /\ session[i] = UserTurnOf(r)
                /\ runs[r].pc = "done" =>
                        \E j \in DOMAIN session : j > i /\ session[j] = AssistantTurnOf(r)

\* two runs have succeeded on the same session at the same time, and the
\* session holds fewer than their four messages
C26_AppendLost ==
    /\ \A r \in Runs : runs[r].pc = "done" /\ ~runs[r].alone
    /\ Len(session) < 4

-----------------------------------------------------------------------------
(* The client factory: DefaultClientFactory.CreateClient and its cache *)

Callers == 1..MaxRequests

\* everything but the client factory
OutsideFactory == <<LoopVars, RegistryVars, session, ProviderVars, StreamVars, runs, chat, rpc, locks>>

\* the providers CreateClient is handed; a model is a sequence of pieces
FactoryProviders ==
    { [type |-> t, model |-> <<"gpt-4">>, apiKey |-> key, endpoint |-> e] :
        t \in {"openai", "OpenAI", "local", "azure"},
        key \in {"", "sk-1", "sk-2"}, e \in {NoEndpoint, OllamaEndpoint} }

\* fmt.Sprintf("%s:%s:%s", provider.Type, provider.Model, provider.Endpoint)
getCacheKey(provider) ==
    <<provider.type, ":">> \o provider.model \o <<":">> \o provider.endpoint

ToLower(type) == IF type = "OpenAI" THEN "openai" ELSE type

\* client.IsHealthy() of the client built for the provider
IsHealthy(provider) ==
    IF ToLower(provider.type) \in {"local", "ollama", "llama"}
    THEN provider.endpoint # NoEndpoint
    ELSE provider.apiKey # ""

\* CreateClient up to the end of its read-locked lookup
CreateClient(q) ==
    /\ factory.calls[q].pc = "idle"
    /\ \E provider \in FactoryProviders :
        LET cacheKey == getCacheKey(provider)
        IN  factory' = [factory EXCEPT !.calls[q] =
                IF cacheKey \in DOMAIN factory.clients
                THEN [pc |-> "returned", provider |-> provider,
                      client |-> factory.clients[cacheKey], err |-> NoError]
                ELSE [pc |-> "create", provider |-> provider,
                      client |-> NoClient, err |-> NoError]]
    /\ UNCHANGED OutsideFactory

\* the rest of CreateClient: the client for the type, its health, the cache
CreateClientStore(q) ==
    /\ factory.calls[q].pc = "create"
    /\ LET provider == factory.calls[q].provider
           cacheKey == getCacheKey(provider)
           client == [id |-> factory.made + 1, provider |-> provider]
       IN  IF ToLower(provider.type) \notin
                {"openai", "anthropic", "claude", "local", "ollama", "llama"}
           THEN factory' = [factory EXCEPT
                    !.calls[q].pc = "returned",
                    !.calls[q].err = Err("unsupported provider type: %s", provider.type)]
           ELSE IF ~IsHealthy(provider)
           THEN factory' = [factory EXCEPT
                    !.made = @ + 1,
                    !.calls[q].pc = "returned",
                    !.calls[q].err = Err("client for provider %s is not healthy", provider.type)]
           ELSE factory' = [factory EXCEPT
                    !.made = @ + 1,
                    !.clients = [key \in DOMAIN @ \cup {cacheKey} |->
                                    IF key = cacheKey THEN client ELSE @[key]],
                    !.calls[q].pc = "returned",
                    !.calls[q].client = client]
    /\ UNCHANGED OutsideFactory

FactoryInit == IdleInit

FactoryNext ==
    \E q \in Callers :
        \/ CreateClient(q)
        \/ CreateClientStore(q)

FactorySpec == FactoryInit /\ [][FactoryNext]_vars

(* C30 *)

\* the credential the client of the provider's type needs is missing
MissingCredentials(provider) ==
    IF ToLower(provider.type) = "local" THEN provider.endpoint = NoEndpoint
    ELSE provider.apiKey = ""

HasReturned(q) == factory.calls[q].pc = "returned"

\* C30: the client factory returns the same cached client for any two
\* requests with equal type, model and endpoint, also when the requests are
\* concurrent; a provider with missing credentials is rejected with an error
\* and is never entered in the cache
C30_SameClientForEqualKey ==
    /\ \A q \in Callers :
        (HasReturned(q) /\ MissingCredentials(factory.calls[q].provider)) =>
            /\ factory.calls[q].err # NoError
            /\ factory.calls[q].client = NoClient
    /\ \A key \in DOMAIN factory.clients :
            ~MissingCredentials(factory.clients[key].provider)
    /\ \A q, o \in Callers :
        (/\ HasReturned(q) /\ HasReturned(o)
         /\ factory.calls[q].err = NoError /\ factory.calls[o].err = NoError
         /\ factory.calls[q].provider.type = factory.calls[o].provider.type
         /\ factory.calls[q].provider.model = factory.calls[o].provider.model
         /\ factory.calls[q].provider.endpoint = factory.calls[o].provider.endpoint) =>
            factory.calls[q].client = factory.calls[o].client

\* a provider without API key was handed the client cached for a provider
\* with the same type, model and endpoint, and no error
C30_CachedClientWithoutCredentials ==
    \E q \in Callers :
        /\ HasReturned(q)
        /\ factory.calls[q].provider.type = "openai"
        /\ factory.calls[q].provider.apiKey = ""
        /\ factory.calls[q].err = NoError
        /\ factory.calls[q].client.id # 0
        /\ factory.calls[q].client.provider.apiKey = "sk-1"

\* the updates of the providers, with a file that is written
UpdateNext ==
    \/ AddProvider(CLIProviders, Saved)
    \/ RemoveProvider(Saved)
    \/ UpdateProvider(UpdateInputs, Saved)

UpdateSpec == ProviderInit /\ [][UpdateNext]_vars

(* C36 *)

\* C36: a provider-manager operation that returns an error (an add or an
\* update that fails the validation; a remove, a set-active or an update of an
\* unknown id) leaves the provider map as it was, every field of every
\* provider included: a provider that an add or an update has put into the
\* map or changed in it is one that validateProvider accepts
C36_FailedOperationChangesNothing ==
    [][(AddProvider(CLIProviders, Saved) \/ UpdateProvider(UpdateInputs, Saved)) =>
        \A i \in DOMAIN providers' :
            (i \notin DOMAIN providers \/ providers'[i] # providers[i]) =>
                validateProvider(providers'[i]) = NoError]_vars

\* an update that set the endpoint of a local provider to "" returned the
\* validation error: the map holds the provider without endpoint, the file
\* still has the endpoint
C36_RejectedUpdateLeftInMap ==
    \E i \in DOMAIN providers :
        /\ providers[i].type = "local"
        /\ providers[i].endpoint = NoEndpoint
        /\ validateProvider(providers[i]) = Err("endpoint is required for local provider", "")
        /\ i \in DOMAIN providerFile
        /\ providerFile[i].endpoint # NoEndpoint

-----------------------------------------------------------------------------
(* GET /api/v1/llm/providers *)

\* requests of the providers that are served at a time
MaxListings == 1

\* the handler calls ListProviders, which copies the pointers of the map
\* under the read lock and releases it
handleLLMProviders ==
    /\ llmLock = 0
    /\ (IF listing = {} THEN 0 ELSE 1) < MaxListings
    /\ listing' = DOMAIN providers
    /\ UNCHANGED <<providers, providerFile, llmLock>>
    /\ UNCHANGED OutsideProviders

\* one turn of its loop: provider.APIKey = "***" through a pointer of the
\* slice, without the lock; a provider taken out of the map since is no
\* longer in listing
handleLLMProvidersMask ==
    /\ \E id \in listing :
        /\ providers' = [providers EXCEPT ![id].apiKey = "***"]
        /\ listing' = listing \ {id}
    /\ UNCHANGED <<providerFile, llmLock>>
    /\ UNCHANGED OutsideProviders

ListingNext ==
    \/ AddProvider(ProviderInputs, Saved)
    \/ RemoveProvider(Saved)
    \/ SetActiveProvider
    \/ SetActiveProviderReturn(Saved)
    \/ handleLLMProviders
    \/ handleLLMProvidersMask

ListingSpec == ProviderInit /\ [][ListingNext]_vars

(* C35 *)

\* C35: serving GET /api/v1/llm/providers, which masks the API keys in its
\* response, leaves the API key of every provider stored in the manager
\* unchanged
C35_ListingKeepsStoredKeys ==
    [][(handleLLMProviders \/ handleLLMProvidersMask) =>
        \A i \in DOMAIN providers : providers'[i].apiKey = providers[i].apiKey]_vars

\* after a listing the stored OpenAI provider has the mask as its key, and a
\* later save has written the mask to the file
C35_StoredKeyMasked ==
    \E i \in DOMAIN providers :
        /\ providers[i].type = "openai"
        /\ providers[i].apiKey = "***"
        /\ i \in DOMAIN providerFile
        /\ providerFile[i].apiKey = "***"

(* C38 *)
\* Once a server has the status "unhealthy", no step of the registry that
\* keeps the server gives it another status, and the server contributes no
\* entry to GetAllTools.
C38_UnhealthyStays ==
    [][\A id \in DOMAIN servers :
          (servers[id].status = "unhealthy" /\ id \in DOMAIN servers') =>
              (servers'[id].status = "unhealthy" /\ ~Contributes(id)')]_vars

\* the server the health check looked at last, found "pending" and marked,
\* is connected: the goroutine of AddServer ran after the sweep
C38_ConnectedAfterUnhealthy ==
    /\ op.kind = "healthCheck"
    /\ op.status = "pending"
    /\ op.id \in DOMAIN servers
    /\ servers[op.id].transport \in {"sse", "http"}
    /\ servers[op.id].status = "connected"
    /\ \A c \in BagToSet(connecting) : c.id # op.id

(* the toolCaller closure of Agent.prepareMCPTools *)

\* the calls Manager.CallTool(server.ID, toolName, args) the closure may make
\* for a name: mcpTools is filled, and ListServers is returned, in the order
\* of a Go map range, and the first entry of that name whose serverName is
\* the name of a listed server decides; no call is "tool %s not found"
toolCaller(name) ==
    UNION { { <<id, t.toolName>> : id \in { i \in DOMAIN servers : servers[i].name = t.serverName } }
            : t \in { e \in mcpTools : e.name = name } }

(* C34 *)
\* After the tools of a request are prepared, every exposed name leads the
\* tool caller to exactly one call, and that call is the tool of the entry on
\* a server that contributed it to the catalog.
C34_NameDesignatesOnePair ==
    [][PrepareMCPTools =>
        \A t \in mcpTools' :
            \E id \in DOMAIN servers :
                /\ toolCaller(t.name)' = { <<id, t.toolName>> }
                /\ Contributes(id)
                /\ t.toolName \in ToolsFrom(id)]_vars

\* "my db" and "my-db" are both exposed under my_db_echo
C34_TwoServersUnderOneName ==
    \E a \in mcpTools, b \in mcpTools :
        /\ a.name = b.name
        /\ cleanServerName(a.serverName) = cleanServerName(b.serverName)
        /\ a.serverName # b.serverName
        /\ Cardinality(toolCaller(a.name)) = 2

-----------------------------------------------------------------------------
(* The basic chat loop: startBasicChat, processWithStreaming, and the
   goroutine of Agent.ProcessConversationWithStreaming with its channel *)

\* inputs the chat loop handles
MaxInputs == 2

\* make(chan StreamResponse, 10)
StreamBuffer == 10

\* everything but the chat loop and the session
OutsideChat == <<LoopVars, RegistryVars, ProviderVars, StreamVars, runs, factory, rpc, locks>>

\* what the provider lookup of the loop finds: no provider, or one of a type
ChatProviders == {"none", "openai", "anthropic", "local", "custom"}

checkStreamingSupport(provider) == provider \in {"openai", "anthropic", "local"}

\* what ProcessConversationWithUI answers
ChatAnswers == SessionTexts \cup {""}

\* for _, char := range result
Runes(s) ==
    CASE s = "hello" -> <<"h", "e", "l", "l", "o">>
      [] s = "hi" -> <<"h", "i">>
      [] OTHER -> <<>>

StreamResponse(content, error, done) == [content |-> content, error |-> error, done |-> done]

\* one pass of the input loop up to the streaming attempt or the fall back:
\* the provider lookup, checkStreamingSupport, and the call of
\* ProcessConversationWithStreaming, which makes the channel, starts the
\* goroutine and returns.  The goroutine of the input before has returned.
\* The input "clear" or "cls" is a command: the session is replaced by a new
\* one without messages and the loop is at its prompt again ("help" and the
\* empty line change nothing, "exit" ends the loop).
startBasicChat ==
    /\ chat.pc = "prompt"
    /\ chat.goroutine \in {"idle", "closed"}
    /\ \/ /\ session' = <<>>
          /\ chat' = [NoChat EXCEPT !.inputs = chat.inputs]
       \/ /\ chat.inputs < MaxInputs
          /\ \E message \in SessionTexts, provider \in ChatProviders :
               LET streams == provider # "none" /\ checkStreamingSupport(provider)
               IN  chat' = [pc |-> IF streams THEN "streaming" ELSE "fallback",
                            inputs |-> chat.inputs + 1,
                            message |-> message,
                            before |-> session,
                            path |-> IF streams THEN "streaming" ELSE "non-streaming",
                            goroutine |-> IF streams THEN "start" ELSE "idle",
                            answer |-> "",
                            ch |-> [chunks |-> <<>>, closes |-> 0, panic |-> ""],
                            got |-> 0]
          /\ UNCHANGED session
    /\ UNCHANGED OutsideChat

\* the goroutine up to the processor: the user message is added, then the
\* provider is looked up; a provider error is sent as the one chunk
ProcessConversationWithStreaming ==
    /\ chat.goroutine = "start"
    /\ session' = Append(session, Msg(RoleUser, Text(chat.message), <<>>, "", ""))
    /\ \/ chat' = [chat EXCEPT !.goroutine = "process"]
       \/ chat' = [chat EXCEPT !.goroutine = "return",
                               !.ch = Send(@, StreamResponse("", Err("Provider error: %v", "provider not found"), FALSE))]
    /\ UNCHANGED OutsideChat

\* processConversationWithToolsStreaming up to the first chunk: the answer of
\* ProcessConversationWithUI is added to the session, or its error comes back
\* and is sent as the one chunk
processConversationWithToolsStreaming ==
    /\ chat.goroutine = "process"
    /\ \/ \E answer \in ChatAnswers :
            /\ session' = Append(session, Msg(RoleAssistant, Text(answer), <<>>, "", ""))
            /\ chat' = [chat EXCEPT !.goroutine = "chars", !.answer = answer]
       \/ /\ UNCHANGED session
          /\ chat' = [chat EXCEPT !.goroutine = "return",
                                  !.ch = Send(@, StreamResponse("", Err("Processing error: %v", "request failed"), FALSE))]
    /\ UNCHANGED OutsideChat

\* a streaming loop that returns after the last character
StreamCharacter_NoDone ==
    /\ chat.goroutine = "chars"
    /\ Len(chat.ch.chunks) - chat.got < StreamBuffer
    /\ LET sent == Len(chat.ch.chunks)
           runes == Runes(chat.answer)
       IN  IF sent + 1 < Len(runes)
           THEN chat' = [chat EXCEPT !.ch = Send(@, StreamResponse(runes[sent + 1], NoError, FALSE))]
           ELSE IF sent < Len(runes)
           THEN chat' = [chat EXCEPT !.ch = Send(@, StreamResponse(runes[sent + 1], NoError, FALSE)),
                                     !.goroutine = "return"]
           ELSE chat' = [chat EXCEPT !.goroutine = "return"]
    /\ UNCHANGED session
    /\ UNCHANGED OutsideChat

\* one send of the streaming loop: the next character of the result, and
\* after the last one the Done chunk; a send waits while the buffer is full
StreamCharacter ==
    /\ chat.goroutine = "chars"
    /\ Len(chat.ch.chunks) - chat.got < StreamBuffer
    /\ LET sent == Len(chat.ch.chunks)
           runes == Runes(chat.answer)
       IN  IF sent < Len(runes)
           THEN chat' = [chat EXCEPT !.ch = Send(@, StreamResponse(runes[sent + 1], NoError, FALSE))]
           ELSE chat' = [chat EXCEPT !.ch = Send(@, StreamResponse("", NoError, TRUE)),
                                     !.goroutine = "return"]
    /\ UNCHANGED session
    /\ UNCHANGED OutsideChat

\* the goroutine returns: defer close(ch)
StreamClose ==
    /\ chat.goroutine = "return"
    /\ chat' = [chat EXCEPT !.ch = Close(@), !.goroutine = "closed"]
    /\ UNCHANGED session
    /\ UNCHANGED OutsideChat

\* processWithStreaming receives one chunk: an Error chunk makes it return
\* the error, and the loop falls back; a Done chunk ends the input
processWithStreaming ==
    /\ chat.pc = "streaming"
    /\ chat.got < Len(chat.ch.chunks)
    /\ LET chunk == chat.ch.chunks[chat.got + 1]
       IN  chat' = [chat EXCEPT !.got = @ + 1,
                                !.pc = IF chunk.error # NoError THEN "fallback"
                                       ELSE IF chunk.done THEN "prompt"
                                       ELSE "streaming",
                                !.path = IF chunk.error # NoError THEN "fallback" ELSE @]
    /\ UNCHANGED session
    /\ UNCHANGED OutsideChat

\* the fall back of the loop: Agent.ProcessConversation adds the user message
\* and, when the processor answers, the assistant message
ProcessConversationFallback ==
    /\ chat.pc = "fallback"
    /\ \/ \E answer \in ChatAnswers :
            /\ session' = session \o <<Msg(RoleUser, Text(chat.message), <<>>, "", ""),
                                        Msg(RoleAssistant, Text(answer), <<>>, "", "")>>
            /\ chat' = [chat EXCEPT !.pc = "prompt", !.answer = answer]
       \/ /\ session' = Append(session, Msg(RoleUser, Text(chat.message), <<>>, "", ""))
          /\ chat' = [chat EXCEPT !.pc = "prompt"]
    /\ UNCHANGED OutsideChat

ChatInit == IdleInit

ChatNext ==
    \/ startBasicChat
    \/ ProcessConversationWithStreaming
    \/ processConversationWithToolsStreaming
    \/ StreamCharacter
    \/ StreamClose
    \/ processWithStreaming
    \/ ProcessConversationFallback

ChatSpec == ChatInit /\ [][ChatNext]_vars

(* C37 *)

UserMessages(s) == Cardinality({ i \in DOMAIN s : s[i].role = RoleUser })

\* C37: when the chat loop is back at its prompt after an input that is not a
\* command, the session holds exactly one user message more than it did when
\* the input was read.
C37_OneUserMessagePerInput ==
    (chat.pc = "prompt" /\ chat.path # "none") =>
        UserMessages(session) = UserMessages(chat.before) + 1

\* the streaming attempt failed and the loop fell back: the input is in the
\* session twice
C37_UserMessageTwice ==
    /\ chat.pc = "prompt"
    /\ chat.path = "fallback"
    /\ Len(session) >= Len(chat.before) + 2
    /\ session[Len(chat.before) + 1] = Msg(RoleUser, Text(chat.message), <<>>, "", "")
    /\ session[Len(chat.before) + 2] = Msg(RoleUser, Text(chat.message), <<>>, "", "")

(* C39 *)

\* the characters of the answer, one chunk each, then the Done chunk
CharactersThenDone(answer) ==
    [i \in 1..Len(Runes(answer)) |-> StreamResponse(Runes(answer)[i], NoError, FALSE)]
    \o <<StreamResponse("", NoError, TRUE)>>

OneErrorChunk(out) ==
    /\ Len(out) = 1
    /\ out[1].error # NoError
    /\ out[1].content = ""
    /\ ~out[1].done

\* C39: the channel of a streaming run carries a prefix of the characters of
\* the final answer followed by Done, or one Error chunk alone; once the
\* producer has returned the channel is closed, once and without panic, and
\* carries either all characters of the answer in order then exactly one
\* Done, or exactly one Error chunk.
C39_CharactersThenDoneOrOneError ==
    LET out == chat.ch.chunks
    IN  /\ chat.ch.panic = ""
        /\ chat.ch.closes > 0 => chat.goroutine = "closed"
        /\ IsPrefix(out, CharactersThenDone(chat.answer)) \/ OneErrorChunk(out)
        /\ (chat.goroutine = "closed" /\ chat.path # "non-streaming") =>
              /\ chat.ch.closes = 1
              /\ out = CharactersThenDone(chat.answer) \/ OneErrorChunk(out)

\* a run that answered "hello": five characters, Done, closed
C39_HelloStreamedAndClosed ==
    /\ chat.goroutine = "closed"
    /\ chat.ch.closes = 1
    /\ Len(chat.ch.chunks) = 6
    /\ chat.ch.chunks[1].content = "h"
    /\ chat.ch.chunks[5].content = "o"
    /\ chat.ch.chunks[6].done
    /\ chat.got = 6

\* a run whose processor failed: one Error chunk, closed
C39_OneErrorAndClosed ==
    /\ chat.goroutine = "closed"
    /\ chat.ch.closes = 1
    /\ chat.ch.chunks = <<StreamResponse("", Err("Processing error: %v", "request failed"), FALSE)>>

-----------------------------------------------------------------------------
(* The JSON-RPC layer of one MCPProcess: sendRequest, readOutput and the
   requests of Start and CallTool *)

\* tools/call requests written to one process
MaxToolCalls == 2
\* seconds the clock advances
MaxSeconds == 11
\* time.After(10 * time.Second)
RequestTimeout == 10

RpcCallers == 1..MaxRpcCallers

\* everything but the process
OutsideRpc == <<LoopVars, RegistryVars, session, ProviderVars, StreamVars, runs, factory, chat, locks>>

MCPRequest(id, method, from) == [id |-> id, method |-> method, caller |-> from]

\* Start on a server that answers: initialize with ID 1 and tools/list with
\* ID 2, one after the other and each answered before Start goes on; the
\* process is handed to the callers after Start has returned
RpcStart ==
    /\ rpc.phase = "new"
    /\ rpc' = [rpc EXCEPT !.phase = "ready",
                          !.stdin = <<MCPRequest(1, "initialize", 0),
                                      MCPRequest(2, "tools/list", 0)>>,
                          !.answered = {1, 2}]
    /\ UNCHANGED OutsideRpc

\* a second of wall-clock time passes
RpcTick ==
    /\ rpc.phase = "ready"
    /\ rpc.unix < 1000 + MaxSeconds
    /\ rpc' = [rpc EXCEPT !.unix = @ + 1]
    /\ UNCHANGED OutsideRpc

\* calls of CallTool that have not written their request yet
RpcUnwritten == Cardinality({c \in RpcCallers : rpc.calls[c].pc \in {"built", "registered"}})

\* MCPProcess.CallTool of a tool the process has, up to its call of
\* sendRequest: the request carries ID: int(time.Now().Unix()), read with no
\* lock held
MCPProcessCallTool(c) ==
    /\ rpc.phase = "ready"
    /\ rpc.calls[c].pc = "idle"
    /\ Len(rpc.stdin) + RpcUnwritten < 2 + MaxToolCalls
    /\ rpc' = [rpc EXCEPT !.calls[c] = [NoRpcCall EXCEPT !.pc = "built", !.id = rpc.unix]]
    /\ UNCHANGED OutsideRpc

\* sendRequest under p.mu, one section at a time: a request without an ID
\* gets p.nextID, and in the next section a new response channel is stored
\* under the ID, in the place of whatever channel was stored there
sendRequest(c) ==
    /\ rpc.calls[c].pc = "built"
    /\ IF rpc.calls[c].id = 0
       THEN rpc' = [rpc EXCEPT !.nextID = @ + 1, !.calls[c].id = rpc.nextID]
       ELSE rpc' = [rpc EXCEPT !.responses = (rpc.calls[c].id :> c) @@ @,
                               !.calls[c].pc = "registered"]
    /\ UNCHANGED OutsideRpc

\* p.stdin.Write of sendRequest, with no lock held: the request is written
\* and the select begins, or the write fails, the entry stored under the ID
\* is deleted and the call returns without waiting
sendRequestWrite(c) ==
    /\ rpc.calls[c].pc = "registered"
    /\ \/ rpc' = [rpc EXCEPT !.stdin = Append(@, MCPRequest(rpc.calls[c].id, "tools/call", c)),
                              !.calls[c].pc = "waiting",
                              !.calls[c].req = Len(rpc.stdin) + 1,
                              !.calls[c].sentAt = rpc.unix]
       \/ rpc' = [rpc EXCEPT !.responses = Without(@, rpc.calls[c].id),
                              !.calls[c].pc = "idle",
                              !.calls[c].out = "write_failed"]
    /\ UNCHANGED OutsideRpc

\* readOutput reads the response to a request the server has not answered
\* yet, in whatever order the server answers: the response goes to the
\* channel stored under its ID, if there is one and it is empty, and the
\* entry is deleted
readOutput ==
    /\ \E n \in DOMAIN rpc.stdin \ rpc.answered :
        LET id == rpc.stdin[n].id
        IN  IF id \in DOMAIN rpc.responses
            THEN LET c == rpc.responses[id]
                 IN  rpc' = [rpc EXCEPT !.answered = @ \cup {n},
                                        !.responses = Without(@, id),
                                        !.calls[c].mailbox = IF @ = 0 THEN n ELSE @]
            ELSE rpc' = [rpc EXCEPT !.answered = @ \cup {n}]
    /\ UNCHANGED OutsideRpc

\* the select of sendRequest: the response, or after 10 seconds the timeout,
\* which deletes the entry stored under the ID of the request
sendRequestReturn(c) ==
    /\ rpc.calls[c].pc = "waiting"
    /\ IF rpc.calls[c].mailbox # 0
       THEN rpc' = [rpc EXCEPT !.calls[c].pc = "idle", !.calls[c].out = "response"]
       ELSE /\ rpc.unix - rpc.calls[c].sentAt >= RequestTimeout
            /\ rpc' = [rpc EXCEPT !.calls[c].pc = "idle", !.calls[c].out = "timeout",
                                  !.responses = Without(@, rpc.calls[c].id)]
    /\ UNCHANGED OutsideRpc

RpcInit == IdleInit

RpcNext ==
    \/ RpcStart
    \/ RpcTick
    \/ readOutput
    \/ \E c \in RpcCallers :
        \/ MCPProcessCallTool(c)
        \/ sendRequest(c)
        \/ sendRequestWrite(c)
        \/ sendRequestReturn(c)

RpcSpec == RpcInit /\ [][RpcNext]_vars

(* C31 *)
\* On one process the ids of the requests strictly increase in the order the
\* requests were written, two requests waiting at the same time carry
\* different ids, and a response that reaches a caller is the response to the
\* request that caller is waiting for or has just got answered.
C31_IdsIncreaseAndResponsesMatch ==
    /\ \A i \in DOMAIN rpc.stdin, j \in DOMAIN rpc.stdin :
          i < j => rpc.stdin[i].id < rpc.stdin[j].id
    /\ \A c \in RpcCallers, d \in RpcCallers :
          (c # d /\ rpc.calls[c].pc = "waiting" /\ rpc.calls[d].pc = "waiting") =>
              rpc.stdin[rpc.calls[c].req].id # rpc.stdin[rpc.calls[d].req].id
    /\ \A c \in RpcCallers :
          rpc.calls[c].mailbox # 0 => rpc.calls[c].mailbox = rpc.calls[c].req

\* two tools/call written in the same second: the second caller has got the
\* response to the request of the first, which is still waiting
C31_ResponseToTheOtherCaller ==
    \E c \in RpcCallers, d \in RpcCallers :
        /\ c # d
        /\ rpc.calls[c].pc = "waiting"
        /\ rpc.calls[c].mailbox = 0
        /\ rpc.calls[d].mailbox = rpc.calls[c].req
        /\ rpc.calls[d].req > rpc.calls[c].req
        /\ rpc.stdin[rpc.calls[c].req].id = rpc.stdin[rpc.calls[d].req].id

-----------------------------------------------------------------------------
(* Manager.Shutdown and the requests waiting in sendRequest *)

\* the call in flight is in the select of sendRequest
RequestWaiting == inflight.pc = "waiting"

\* Shutdown stops the processes of Manager.processes, empties the map and
\* cancels the context of the health-check loop
Shutdown ==
    /\ procs' = [i \in DOMAIN procs |->
                    IF \E id \in DOMAIN processes : processes[id] = i
                    THEN Stop(procs[i]) ELSE procs[i]]
    /\ processes' = <<>>
    /\ op' = Op("Shutdown", IF inflight # NoCall THEN inflight.id ELSE 0,
                IF RequestWaiting THEN "waiting" ELSE "none", NoError, "")
    /\ UNCHANGED <<servers, storage, discovered, connecting, checks, uuids, inflight,
                   now, mcpTools, session>>
    /\ UNCHANGED <<LoopVars, ServiceVars>>

ShutdownNext ==
    \/ AddServer(CommandIDs, RegistryNames, Saved)
    \/ CallTool
    \/ CallToolStart
    \/ CallToolCall
    \/ CallToolSelect
    \/ Shutdown
    \/ CallToolReturn

ShutdownSpec == RegistryInit /\ [][ShutdownNext]_vars

(* C32 *)
\* A call whose tools/call request was waiting when Shutdown ran gets the
\* cancellation error "tool call failed: process cancelled" from its select.
C32_WaitingRequestsCancelled ==
    [][(op.kind = "Shutdown" /\ op.reply = "waiting" /\ CallToolSelect) =>
          inflight'.err = Err("tool call failed: %w", "process cancelled")]_vars

\* Shutdown ran while the request of the call in flight waited on a fresh
\* process: Shutdown did not stop that process, and the select has taken the
\* timeout instead of a cancellation
C32_FreshProcessOutlivesShutdown ==
    /\ op.kind = "Shutdown"
    /\ op.reply = "waiting"
    /\ inflight.pc = "answered"
    /\ inflight.reply = "timeout"
    /\ inflight.proc # 0
    /\ procs[inflight.proc].os = "running"
    /\ processes = <<>>

-----------------------------------------------------------------------------
(* Manager.mu: where the calls of the registry take and release the lock *)

Threads == 1..MaxThreads

\* everything but the lock
OutsideLocks == <<LoopVars, RegistryVars, session, ProviderVars, StreamVars, runs, factory, chat, rpc>>

\* one step of a call: taking or releasing the lock, work on the maps in
\* memory, a write of mcp_servers.json, traffic with a subprocess (Start,
\* GetTools after it, CallTool), or the kill of a subprocess
Do(kind, what) == [kind |-> kind, what |-> what]

\* the steps of the calls of the registry, in the order of their code
ManagerProgram(call) ==
    CASE call = "AddServer stdio" ->
            <<Do("Lock", "m.mu.Lock"), Do("map", "m.servers[server.ID] = server"),
              Do("file", "SaveMCPServers"), Do("subprocess", "testStdioServer: process.Start"),
              Do("map", "m.processes[server.ID] = process"), Do("file", "SaveMCPServers"),
              Do("Unlock", "defer m.mu.Unlock")>>
      [] call = "AddServer sse" ->
            <<Do("Lock", "m.mu.Lock"), Do("map", "m.servers[server.ID] = server"),
              Do("file", "SaveMCPServers"), Do("go", "go m.connectToServer"),
              Do("Unlock", "defer m.mu.Unlock")>>
      [] call = "RemoveServer" ->
            <<Do("Lock", "m.mu.Lock"), Do("kill", "process.Stop"),
              Do("map", "delete(m.servers, id)"), Do("file", "SaveMCPServers"),
              Do("Unlock", "defer m.mu.Unlock")>>
      [] call = "UpdateServerStatus" ->
            <<Do("Lock", "m.mu.Lock"), Do("map", "server.Status = status"),
              Do("Unlock", "defer m.mu.Unlock")>>
      [] call = "CallTool" ->
            <<Do("RLock", "m.mu.RLock"), Do("map", "m.servers[serverID]"),
              Do("RUnlock", "m.mu.RUnlock"), Do("subprocess", "freshProcess.Start"),
              Do("subprocess", "freshProcess.CallTool"), Do("Lock", "m.mu.Lock"),
              Do("map", "currentServer.LastPing = time.Now()"), Do("Unlock", "m.mu.Unlock"),
              Do("kill", "defer freshProcess.Stop")>>
      [] call = "Shutdown" ->
            <<Do("Lock", "m.mu.Lock"), Do("kill", "process.Stop"),
              Do("map", "m.processes = make"), Do("Unlock", "m.mu.Unlock")>>
      [] OTHER ->
            <<Do("RLock", "m.mu.RLock"), Do("map", "read"), Do("RUnlock", "defer m.mu.RUnlock")>>

ManagerCalls ==
    {"AddServer stdio", "AddServer sse", "RemoveServer", "UpdateServerStatus", "CallTool",
     "Shutdown", "GetServer", "ListServers", "GetAllTools"}

\* the step thread t is at: taken when the thread moves on
Current(t) == ManagerProgram(locks.threads[t].op)[locks.threads[t].pc]

InCall(t) == locks.threads[t].op # "none"

\* a goroutine calls the registry
ManagerCall(t) ==
    /\ ~InCall(t)
    /\ \E call \in ManagerCalls :
        locks' = [locks EXCEPT !.threads[t] = [op |-> call, pc |-> 1]]
    /\ UNCHANGED OutsideLocks

\* the thread completes the step it is at: Lock waits until no one holds the
\* lock, RLock until no writer does
ManagerStep(t) ==
    /\ InCall(t)
    /\ LET step == Current(t)
           last == locks.threads[t].pc = Len(ManagerProgram(locks.threads[t].op))
           moved == [locks EXCEPT !.threads[t] = IF last THEN [op |-> "none", pc |-> 0]
                                                 ELSE [@ EXCEPT !.pc = @ + 1]]
       IN  CASE step.kind = "Lock" ->
                    /\ locks.w = 0 /\ locks.r = {}
                    /\ locks' = [moved EXCEPT !.w = t]
             [] step.kind = "RLock" ->
                    /\ locks.w = 0
                    /\ locks' = [moved EXCEPT !.r = @ \cup {t}]
             [] step.kind = "Unlock" -> locks' = [moved EXCEPT !.w = 0]
             [] step.kind = "RUnlock" -> locks' = [moved EXCEPT !.r = @ \ {t}]
             [] OTHER -> locks' = moved
    /\ UNCHANGED OutsideLocks

LocksNext == \E t \in Threads : ManagerCall(t) \/ ManagerStep(t)

LocksSpec == IdleInit /\ [][LocksNext]_vars

(* C33 *)

Holds(t) == locks.w = t \/ t \in locks.r

\* C33: no thread holds the registry lock, as writer or as reader, while it
\* is at a step that talks to a subprocess.
C33_NoSubprocessIOUnderLock ==
    \A t \in Threads :
        (InCall(t) /\ Current(t).kind = "subprocess") => ~Holds(t)

\* AddServer is inside process.Start with the writer lock, and a GetServer of
\* another goroutine waits at its RLock
C33_GetWaitsForProbe ==
    \E t \in Threads, u \in Threads :
        /\ locks.threads[t].op = "AddServer stdio"
        /\ Current(t) = Do("subprocess", "testStdioServer: process.Start")
        /\ locks.w = t
        /\ locks.threads[u].op = "GetServer"
        /\ Current(u).kind = "RLock"

====
